---- MODULE Spec2Model ----
(***************************************************************************)
(* The on_load forbidden-global analysis of tests/test_on_load_globals.py. *)
(*                                                                         *)
(* Source text is modelled at the granularity of lexemes: a line is a      *)
(* sequence of tokens (words, punctuation characters, the comment markers  *)
(* and explicit white space), a file is a sequence of lines, and every     *)
(* regular expression of the source is translated into a matcher over      *)
(* tokens.  Line numbers and positions are 0-based, as in the source.      *)
(* A function name is the sequence of the tokens that spell it:            *)
(* <<"setup">> for setup, <<"M", ".", "setup">> for M.setup.               *)
(***************************************************************************)
EXTENDS Integers, Sequences, FiniteSets, TLC

VARIABLES
    corpus,                \* find_lua_files(): the files, in enumeration order
    pc,                    \* position in check_on_load_globals / trace_call_chain
    control_lua,           \* index in corpus of control.lua, 0 for None
    on_load_functions,     \* result of find_on_load_functions
    parsers,               \* trace_call_chain: files parsed so far (indices)
    all_functions,         \* trace_call_chain: function name -> file index
    fi,                    \* trace_call_chain: next file of the indexing loop
    visited,               \* trace_call_chain: names already traced
    to_visit,              \* trace_call_chain: the worklist
    expanded,              \* history: names whose callees were extracted, in order
    all_on_load_functions, \* check_on_load_globals: the set trace_call_chain returned
    check_parsers,         \* check_on_load_globals: parsers dict (indices, in order)
    pending,               \* names of all_on_load_functions not yet iterated
    forbidden_order,       \* iteration order of the set FORBIDDEN_ON_LOAD_GLOBALS
    errors,                \* check_on_load_globals: errors collected so far
    result                 \* the list check_on_load_globals returned

VARIABLES
    validator,             \* the ChangelogValidator instance (self)
    changelog_pc,          \* position in validate_file: "idle" between calls
    filepath,              \* validate_file: the file of the call in progress
    changelog_lines,       \* validate_file: lines = f.readlines()
    line_index,            \* _validate_lines: i, the 1-based number of the next line
    expecting_version_after_separator,
    is_valid,              \* the value the last validate_file call returned
    calls                  \* number of validate_file calls made

VARIABLES
    parser,                \* a LuaParser instance (self): content and lines
    method,                \* the LuaParser method called on it, "" before a call
    scan_pc,               \* position in that call: "new", "idle", "scan",
                           \* "returned", "raised"
    query,                 \* the arguments of the call
    scan_start,            \* start_pos, -1 for None
    scan_end,              \* end_pos
    scan_line,             \* line_num of the scanning loop of check_forbidden_globals
    scan_in_handler,       \* in_event_handler
    scan_depth,            \* event_handler_depth
    scan_errors,           \* errors collected by check_forbidden_globals
    returned               \* the value the call returned

\* The state of the on_load analysis, of the changelog validator, and of one
\* LuaParser with a method call on it.
load_vars == <<corpus, pc, control_lua, on_load_functions, parsers, all_functions, fi,
               visited, to_visit, expanded, all_on_load_functions, check_parsers,
               pending, forbidden_order, errors, result>>

log_vars == <<validator, changelog_pc, filepath, changelog_lines, line_index,
              expecting_version_after_separator, is_valid, calls>>

scan_vars == <<parser, method, scan_pc, query, scan_start, scan_end, scan_line,
               scan_in_handler, scan_depth, scan_errors, returned>>

vars == <<load_vars, log_vars, scan_vars>>

(***************************************************************************)
(* Lexemes                                                                 *)
(***************************************************************************)
FORBIDDEN_ON_LOAD_GLOBALS == {"game", "rendering"}

\* White space (what \s matches).
Space == {" ", "\n"}

\* Tokens that are not words (\w+): white space, punctuation, comment markers.
NonWord == Space \cup {"", "(", ")", ".", ",", "=", "..", "\"", "'", "\\",
                       "--", "--[[", "]]"}

\* s[i] for a 0-based position, "" outside the sequence.
Tok(s, i) == IF i >= 0 /\ i < Len(s) THEN s[i + 1] ELSE ""

IsWord(t) == t \notin NonWord

\* s[a:b] of Python, 0-based, b exclusive and cut at len(s).
Slice(s, a, b) ==
    LET e == IF b < Len(s) THEN b ELSE Len(s)
    IN IF e <= a THEN <<>> ELSE SubSeq(s, a + 1, e)

\* The elements of a sequence, as a set.
Range(q) == {q[k] : k \in 1..Len(q)}

RECURSIVE SkipWs(_, _)
\* \s* from position i: the position of the first token that is not white space.
SkipWs(s, i) == IF Tok(s, i) \in Space THEN SkipWs(s, i + 1) ELSE i

\* \s+ from position i: the position after the white space, -1 without any.
WsPlus(s, i) == IF Tok(s, i) \in Space THEN SkipWs(s, i + 1) ELSE -1

RECURSIVE Count(_, _)
\* Number of occurrences of token t in s.
Count(s, t) ==
    IF s = <<>> THEN 0
    ELSE (IF Head(s) = t THEN 1 ELSE 0) + Count(Tail(s), t)

RECURSIVE Join(_)
\* '\n'.join(lines) as one token sequence.
Join(lines) ==
    IF lines = <<>> THEN <<>>
    ELSE IF Len(lines) = 1 THEN lines[1]
    ELSE lines[1] \o <<"\n">> \o Join(Tail(lines))

\* LuaParser.__init__: content and content.split('\n').
LuaParser(file) == [content |-> Join(file.lines), lines |-> file.lines]

NoMatch == [ok |-> FALSE, name |-> <<>>, start |-> -1, end |-> -1]

\* The ends of \w+(?:\.\w+)? at position i, the greedy one first.
NameEnds(s, i) ==
    IF ~IsWord(Tok(s, i)) THEN <<>>
    ELSE IF Tok(s, i + 1) = "." /\ IsWord(Tok(s, i + 2)) THEN <<i + 3, i + 1>>
    ELSE <<i + 1>>

(***************************************************************************)
(* LuaParser._is_in_string, _line_pos_to_absolute, _is_in_comment          *)
(***************************************************************************)
RECURSIVE StringState(_, _)
\* <<in_single, in_double>> after the first n tokens of line.
StringState(line, n) ==
    IF n <= 0 THEN <<FALSE, FALSE>>
    ELSE LET st == StringState(line, n - 1)
             i == n - 1
             char == Tok(line, i)
             unescaped == (i = 0 \/ Tok(line, i - 1) # "\\")
         IN IF char = "\"" /\ ~st[1] /\ unescaped THEN <<st[1], ~st[2]>>
            ELSE IF char = "'" /\ ~st[2] /\ unescaped THEN <<~st[1], st[2]>>
            ELSE st

is_in_string(line, pos) ==
    LET n == IF pos < Len(line) THEN pos ELSE Len(line)
        st == StringState(line, n)
    IN st[1] \/ st[2]

RECURSIVE FindDashes(_, _)
\* line.find('--'): the first position from i on of a token that starts with --.
FindDashes(line, i) ==
    IF i >= Len(line) THEN -1
    ELSE IF Tok(line, i) \in {"--", "--[["} THEN i
    ELSE FindDashes(line, i + 1)

\* self.content[:_line_pos_to_absolute(line_num, pos)]
BeforePos(p, line_num, pos) ==
    LET head == Slice(p.lines, 0, line_num)
        cur == Slice(p.lines[line_num + 1], 0, pos)
    IN IF head = <<>> THEN cur ELSE Join(head) \o <<"\n">> \o cur

is_in_comment(p, line_num, pos) ==
    LET line == p.lines[line_num + 1]
        comment_start == FindDashes(line, 0)
    IN IF comment_start # -1 /\ comment_start <= pos
          /\ ~is_in_string(line, comment_start)
       THEN TRUE
       ELSE LET before_pos == BeforePos(p, line_num, pos)
            IN Count(before_pos, "--[[") > Count(before_pos, "]]")

(***************************************************************************)
(* LuaParser.find_function_definitions                                     *)
(***************************************************************************)
\* "function" \s+ NAME \s* "(" at position j, NAME = \w+(?:\.\w+)?
DefKeywordForm(s, j) ==
    LET k == WsPlus(s, j + 1)
        ends == IF Tok(s, j) = "function" /\ k # -1 THEN NameEnds(s, k) ELSE <<>>
        good == SelectSeq(ends, LAMBDA e: Tok(s, SkipWs(s, e)) = "(")
    IN IF good = <<>> THEN NoMatch
       ELSE [ok |-> TRUE, name |-> Slice(s, k, good[1]), start |-> j,
             end |-> SkipWs(s, good[1]) + 1]

\* The position after \s* "=" \s* "function" \s* "(" from position e, else -1.
AssignTail(s, e) ==
    LET a == SkipWs(s, e)
        b == SkipWs(s, a + 1)
        c == SkipWs(s, b + 1)
    IN IF Tok(s, a) = "=" /\ Tok(s, b) = "function" /\ Tok(s, c) = "(" THEN c + 1
       ELSE -1

\* NAME \s* "=" \s* "function" \s* "(" at position j
DefAssignForm(s, j) ==
    LET good == SelectSeq(NameEnds(s, j), LAMBDA e: AssignTail(s, e) # -1)
    IN IF good = <<>> THEN NoMatch
       ELSE [ok |-> TRUE, name |-> Slice(s, j, good[1]), start |-> j,
             end |-> AssignTail(s, good[1])]

\* (?:function\s+(NAME)|(NAME)\s*=\s*function)\s*\(  at position j
DefCore(s, j) ==
    IF DefKeywordForm(s, j).ok THEN DefKeywordForm(s, j) ELSE DefAssignForm(s, j)

\* The whole pattern of find_function_definitions, (?:local\s+)? first, at i.
DefMatchAt(s, i) ==
    LET k == WsPlus(s, i + 1)
        withLocal == IF Tok(s, i) = "local" /\ k # -1 THEN DefCore(s, k) ELSE NoMatch
    IN IF withLocal.ok THEN [withLocal EXCEPT !.start = i] ELSE DefCore(s, i)

RECURSIVE DefMatches(_, _)
\* re.finditer(pattern, line): the matches from position i on, left to right.
DefMatches(s, i) ==
    IF i >= Len(s) THEN <<>>
    ELSE LET m == DefMatchAt(s, i)
         IN IF m.ok THEN <<m>> \o DefMatches(s, m.end)
            ELSE DefMatches(s, i + 1)

\* functions[k] = v on a dict modelled as a function.
DictPut(d, k, v) == [x \in DOMAIN d \cup {k} |-> IF x = k THEN v ELSE d[x]]

RECURSIVE PutNames(_, _, _, _)
\* The matches ms of one line stored in turn: functions[func_name] = line_num + 1,
\* the matches that start inside a string left out.
PutNames(d, line, ms, line_num) ==
    IF ms = <<>> THEN d
    ELSE PutNames(IF ~is_in_string(line, Head(ms).start)
                  THEN DictPut(d, Head(ms).name, line_num + 1) ELSE d,
                  line, Tail(ms), line_num)

RECURSIVE DefinitionsFrom(_, _, _)
DefinitionsFrom(p, line_num, d) ==
    IF line_num >= Len(p.lines) THEN d
    ELSE IF is_in_comment(p, line_num, 0) THEN DefinitionsFrom(p, line_num + 1, d)
    ELSE LET line == p.lines[line_num + 1]
         IN DefinitionsFrom(p, line_num + 1,
                            PutNames(d, line, DefMatches(line, 0), line_num))

\* name -> 1-based definition line, the last definition of a name winning.
find_function_definitions(p) == DefinitionsFrom(p, 0, <<>>)

(***************************************************************************)
(* Call expressions: (\w+(?:\.\w+)?)\s*\(                                   *)
(***************************************************************************)
CallMatchAt(s, i) ==
    LET good == SelectSeq(NameEnds(s, i), LAMBDA e: Tok(s, SkipWs(s, e)) = "(")
    IN IF good = <<>> THEN NoMatch
       ELSE [ok |-> TRUE, name |-> Slice(s, i, good[1]), start |-> i,
             end |-> SkipWs(s, good[1]) + 1]

RECURSIVE CallMatches(_, _)
\* re.finditer(call_pattern, text): the names matched from position i on.
CallMatches(s, i) ==
    IF i >= Len(s) THEN <<>>
    ELSE LET m == CallMatchAt(s, i)
         IN IF m.ok THEN <<m.name>> \o CallMatches(s, m.end)
            ELSE CallMatches(s, i + 1)

(***************************************************************************)
(* LuaParser.find_on_load_functions                                        *)
(***************************************************************************)
\* script\.on_load\s*\(\s*function\s*\(\s*\) at position i: the position after
\* it, else -1.
OnLoadHead(s, i) ==
    LET a == SkipWs(s, i + 3)
        b == SkipWs(s, a + 1)
        c == SkipWs(s, b + 1)
        d == SkipWs(s, c + 1)
    IN IF /\ Tok(s, i) = "script" /\ Tok(s, i + 1) = "." /\ Tok(s, i + 2) = "on_load"
          /\ Tok(s, a) = "(" /\ Tok(s, b) = "function" /\ Tok(s, c) = "("
          /\ Tok(s, d) = ")"
       THEN d + 1 ELSE -1

RECURSIVE OnLoadEnd(_, _)
\* (.*?)end\s*\)  from position k: the position of the first "end" that a ")"
\* follows, else -1 (DOTALL: the body may span lines).
OnLoadEnd(s, k) ==
    IF k >= Len(s) THEN -1
    ELSE IF Tok(s, k) = "end" /\ Tok(s, SkipWs(s, k + 1)) = ")" THEN k
    ELSE OnLoadEnd(s, k + 1)

RECURSIVE OnLoadSearch(_, _)
\* re.search(pattern, self.content, re.DOTALL): group(1) of the leftmost match.
OnLoadSearch(s, i) ==
    IF i >= Len(s) THEN [ok |-> FALSE, body |-> <<>>]
    ELSE LET h == OnLoadHead(s, i)
             e == IF h = -1 THEN -1 ELSE OnLoadEnd(s, h)
         IN IF e # -1 THEN [ok |-> TRUE, body |-> Slice(s, h, e)]
            ELSE OnLoadSearch(s, i + 1)

\* None is [found |-> FALSE]; a list is [found |-> TRUE, names |-> the list].
find_on_load_functions(p) ==
    LET match == OnLoadSearch(p.content, 0)
    IN IF ~match.ok THEN [found |-> FALSE, names |-> <<>>]
       ELSE [found |-> TRUE,
             names |-> SelectSeq(CallMatches(match.body, 0),
                                 LAMBDA func_name: func_name # <<"script">>)]

(***************************************************************************)
(* Function boundaries, shared by find_function_calls and                  *)
(* check_forbidden_globals (the two copies in the source are identical)    *)
(***************************************************************************)
RECURSIVE StartsWith(_, _, _)
\* The tokens of s from position i on spell the name nm (re.escape(name)).
StartsWith(s, i, nm) ==
    nm = <<>> \/ (Tok(s, i) = Head(nm) /\ StartsWith(s, i + 1, Tail(nm)))

\* (?:function\s+NAME|NAME\s*=\s*function)\s*\(  at position j
FuncCore(s, j, nm) ==
    \/ LET k == WsPlus(s, j + 1)
       IN /\ Tok(s, j) = "function" /\ k # -1
          /\ StartsWith(s, k, nm)
          /\ Tok(s, SkipWs(s, k + Len(nm))) = "("
    \/ /\ StartsWith(s, j, nm)
       /\ AssignTail(s, j + Len(nm)) # -1

\* re.search(func_pattern, line): a match at some position, (?:local\s+)? first.
FuncPatternSearch(line, nm) ==
    \E i \in 0..(Len(line) - 1):
        \/ Tok(line, i) = "local" /\ WsPlus(line, i + 1) # -1
           /\ FuncCore(line, WsPlus(line, i + 1), nm)
        \/ FuncCore(line, i, nm)

RECURSIVE FindStart(_, _, _)
\* start_pos: the first line from line_num on that matches func_pattern and does
\* not start in a comment; -1 for None.
FindStart(p, function_name, line_num) ==
    IF line_num >= Len(p.lines) THEN -1
    ELSE IF FuncPatternSearch(p.lines[line_num + 1], function_name)
            /\ ~is_in_comment(p, line_num, 0)
    THEN line_num
    ELSE FindStart(p, function_name, line_num + 1)

RECURSIVE FindEnd(_, _, _, _)
\* end_pos: depth counts \bfunction\b against \bend\b over the lines that do not
\* start in a comment; the first line after start_pos at which depth is 0, and
\* len(self.lines) when there is none.
FindEnd(p, start_pos, line_num, depth) ==
    IF line_num >= Len(p.lines) THEN Len(p.lines)
    ELSE IF is_in_comment(p, line_num, 0) THEN FindEnd(p, start_pos, line_num + 1, depth)
    ELSE LET line == p.lines[line_num + 1]
             d == depth + Count(line, "function") - Count(line, "end")
         IN IF d = 0 /\ line_num > start_pos THEN line_num
            ELSE FindEnd(p, start_pos, line_num + 1, d)

EndPos(p, start_pos) == FindEnd(p, start_pos, start_pos, 0)

(***************************************************************************)
(* LuaParser.find_function_calls                                           *)
(***************************************************************************)
CallKeywords == {<<"function">>, <<"if">>, <<"for">>, <<"while">>}

find_function_calls(p, function_name) ==
    LET start_pos == FindStart(p, function_name, 0)
    IN IF start_pos = -1 THEN <<>>
       ELSE LET end_pos == EndPos(p, start_pos)
                function_body == Join(Slice(p.lines, start_pos, end_pos + 1))
            IN SelectSeq(CallMatches(function_body, 0),
                         LAMBDA func_name: func_name \notin CallKeywords)

(***************************************************************************)
(* LuaParser.check_forbidden_globals                                       *)
(***************************************************************************)
RECURSIVE GlobalMatches(_, _, _)
\* re.finditer(rf'\b{global_name}\s*\.', line): the start positions from i on.
GlobalMatches(line, global_name, i) ==
    IF i >= Len(line) THEN <<>>
    ELSE IF Tok(line, i) = global_name /\ Tok(line, SkipWs(line, i + 1)) = "."
    THEN <<i>> \o GlobalMatches(line, global_name, SkipWs(line, i + 1) + 1)
    ELSE GlobalMatches(line, global_name, i + 1)

RECURSIVE Contains(_, _, _)
\* needle in line (substring test), the needle given as adjacent tokens.
Contains(line, needle, i) ==
    /\ i + Len(needle) <= Len(line)
    /\ (StartsWith(line, i, needle) \/ Contains(line, needle, i + 1))

\* 'script.on_event' in line and 'function(' in line
EntersEventHandler(line) ==
    /\ Contains(line, <<"script", ".", "on_event">>, 0)
    /\ Contains(line, <<"function", "(">>, 0)

RECURSIVE LineErrorsFirstGlobal(_, _, _, _)
\* Mutant of LineErrors: the loop over the globals is left after the first global
\* that has a match on the line.
LineErrorsFirstGlobal(line, line_num, function_name, globals) ==
    IF globals = <<>> THEN <<>>
    ELSE LET hits == SelectSeq(GlobalMatches(line, Head(globals), 0),
                               LAMBDA m: ~is_in_string(line, m))
         IN IF hits # <<>>
            THEN [k \in 1..Len(hits) |->
                     [line |-> line_num + 1, func |-> function_name,
                      global |-> Head(globals)]]
            ELSE LineErrorsFirstGlobal(line, line_num, function_name, Tail(globals))

RECURSIVE LineErrors(_, _, _, _)
\* The errors of one scanned line: for each global, in the set's iteration
\* order, one (line_num + 1, function, global) per match outside a string.
LineErrors(line, line_num, function_name, globals) ==
    IF globals = <<>> THEN <<>>
    ELSE LET hits == SelectSeq(GlobalMatches(line, Head(globals), 0),
                               LAMBDA m: ~is_in_string(line, m))
         IN [k \in 1..Len(hits) |->
                [line |-> line_num + 1, func |-> function_name,
                 global |-> Head(globals)]]
            \o LineErrors(line, line_num, function_name, Tail(globals))

\* Mutant of HandlerStep: the flag clears only when the depth is exactly 0.
HandlerStepAtZero(line, line_num, start_pos, in_eh, eh_depth) ==
    LET entering == EntersEventHandler(line)
        in1 == in_eh \/ entering
        d0 == IF entering THEN 0 ELSE eh_depth
        d1 == IF in1 THEN d0 + Count(line, "function") - Count(line, "end") ELSE d0
        closes == in1 /\ d1 = 0 /\ line_num > start_pos
    IN <<in1 /\ ~closes, d1, in1>>

\* The event handler state after the line: <<in_event_handler,
\* event_handler_depth, skip>>, skip when the line is not checked.
HandlerStep(line, line_num, start_pos, in_eh, eh_depth) ==
    LET entering == EntersEventHandler(line)
        in1 == in_eh \/ entering
        d0 == IF entering THEN 0 ELSE eh_depth
        d1 == IF in1 THEN d0 + Count(line, "function") - Count(line, "end") ELSE d0
        closes == in1 /\ d1 <= 0 /\ line_num > start_pos
    IN <<in1 /\ ~closes, d1, in1>>

RECURSIVE ScanBody(_, _, _, _, _, _, _, _)
\* The loop over range(start_pos, end_pos + 1), from line_num on (end_pos is
\* below len(self.lines) here).
ScanBody(p, function_name, globals, start_pos, end_pos, line_num, in_eh, eh_depth) ==
    IF line_num > end_pos THEN <<>>
    ELSE IF is_in_comment(p, line_num, 0)
    THEN ScanBody(p, function_name, globals, start_pos, end_pos, line_num + 1,
                  in_eh, eh_depth)
    ELSE LET line == p.lines[line_num + 1]
             st == HandlerStep(line, line_num, start_pos, in_eh, eh_depth)
         IN (IF st[3] THEN <<>> ELSE LineErrors(line, line_num, function_name, globals))
            \o ScanBody(p, function_name, globals, start_pos, end_pos, line_num + 1,
                        st[1], st[2])

\* self.lines[line_num] raises IndexError when the loop reaches
\* line_num = end_pos = len(self.lines).
check_raises(p, function_name) ==
    LET start_pos == FindStart(p, function_name, 0)
    IN start_pos # -1 /\ EndPos(p, start_pos) >= Len(p.lines)

\* The errors list returned (when nothing is raised).
check_forbidden_globals(p, function_name, globals) ==
    LET start_pos == FindStart(p, function_name, 0)
    IN IF start_pos = -1 THEN <<>>
       ELSE ScanBody(p, function_name, globals, start_pos, EndPos(p, start_pos),
                     start_pos, FALSE, 0)

(***************************************************************************)
(* The corpora checked                                                     *)
(***************************************************************************)
\* Longest lib_a.lua built freely from LibLines.
MaxLines == 3

File(name, readable, lines) == [name |-> name, readable |-> readable, lines |-> lines]

\* function setup()
DefSetup == <<"function", " ", "setup", "(", ")">>
\* function helper()
DefHelper == <<"function", " ", "helper", "(", ")">>
\* M.setup = function()
DefMSetup == <<"M", ".", "setup", " ", "=", " ", "function", "(", ")">>
\*  helper()
CallHelper == <<" ", "helper", "(", ")">>
\*  setup()
CallSetup == <<" ", "setup", "(", ")">>
\*  game.print()
GamePrint == <<" ", "game", ".", "print", "(", ")">>
\*  game.print(game.tick) rendering.clear()
ThreeAccesses == <<" ", "game", ".", "print", "(", "game", ".", "tick", ")", " ",
                   "rendering", ".", "clear", "(", ")">>
\* end
End == <<"end">>
\*  script.on_event(e, function(ev)
OnEvent == <<" ", "script", ".", "on_event", "(", "e", ",", " ", "function", "(",
             "ev", ")">>
\*  script.on_event(e, function() end)
OnEventOneLine == <<" ", "script", ".", "on_event", "(", "e", ",", " ", "function",
                    "(", ")", " ", "end", ")">>
\*  end)
EndParen == <<" ", "end", ")">>
\*  local s = "rendering.draw_line(x)"
StringAccess == <<" ", "local", " ", "s", " ", "=", " ", "\"", "rendering", ".",
                  "draw_line", "(", "x", ")", "\"">>
\*  local s = "a\\" .. "game.x"
EscapedBackslash == <<" ", "local", " ", "s", " ", "=", " ", "\"", "a", "\\", "\\",
                      "\"", " ", "..", " ", "\"", "game", ".", "x", "\"">>
\*  -- the init function
IndentedComment == <<" ", "--", " ", "the", " ", "init", " ", "function">>

\* The lines lib_a.lua is built from freely.
LibLines == {DefSetup, DefHelper, CallHelper, CallSetup, GamePrint, End}

FreeFiles == UNION {[1..n -> LibLines] : n \in 1..MaxLines}

\* Whole files, longer than MaxLines, for the constructs the free files are too
\* short for.
ScenarioFiles == {
    \* a closure registered inside setup, with a one-line registration inside it
    <<DefSetup, OnEvent, OnEventOneLine, GamePrint, EndParen, End, <<>>>>,
    \* a closure registered inside setup, an access after it
    <<DefSetup, OnEvent, GamePrint, EndParen, ThreeAccesses, End, <<>>>>,
    \* accesses inside string literals only
    <<DefSetup, StringAccess, End, <<>>>>,
    <<DefSetup, EscapedBackslash, End, <<>>>>,
    \* a comment that holds the word function
    <<DefSetup, IndentedComment, GamePrint, End, <<>>>>,
    \* setup and helper call each other, helper calls itself
    <<DefSetup, CallHelper, End, DefHelper, CallSetup, CallHelper, GamePrint, End, <<>>>>,
    \* M.setup is not called; setup is
    <<DefMSetup, GamePrint, End, DefSetup, End, <<>>>>,
    \* setup calls helper; M.setup, defined last, is not called
    <<DefSetup, CallHelper, End, DefHelper, GamePrint, End, DefMSetup, GamePrint, End,
      <<>>>> }

LibAFiles == {File("lib_a.lua", TRUE, ls) : ls \in FreeFiles \cup ScenarioFiles}

\* lib_b.lua, enumerated before lib_a.lua: absent, unreadable, or defining setup
\* and helper.
LibBParts == {
    <<>>,
    <<File("lib_b.lua", FALSE, <<>>)>>,
    <<File("lib_b.lua", TRUE,
           <<DefSetup, CallHelper, End, DefHelper, ThreeAccesses, End, <<>>>>)>> }

\* script.on_load(function() setup() end)
OnLoadOneLine == <<"script", ".", "on_load", "(", "function", "(", ")", " ", "setup",
                   "(", ")", " ", "end", ")">>
\* script.on_load(function() end)
OnLoadEmpty == <<"script", ".", "on_load", "(", "function", "(", ")", " ", "end", ")">>
\* script.on_load(function()
OnLoadOpen == <<"script", ".", "on_load", "(", "function", "(", ")">>
\* local x = 1
LocalX == <<"local", " ", "x", " ", "=", " ", "1">>

\* control.lua: absent, unreadable, without a registration, with an empty
\* handler, or with a handler that calls setup (and helper).
ControlParts == {
    <<>>,
    <<File("control.lua", FALSE, <<>>)>>,
    <<File("control.lua", TRUE, <<LocalX, <<>>>>)>>,
    <<File("control.lua", TRUE, <<OnLoadEmpty, <<>>>>)>>,
    <<File("control.lua", TRUE, <<OnLoadOneLine, <<>>>>)>>,
    <<File("control.lua", TRUE, <<OnLoadOpen, CallSetup, CallHelper, EndParen, <<>>>>)>> }

\* script.on_load(function() game.print() setup() end)
OnLoadDirect == <<"script", ".", "on_load", "(", "function", "(", ")", " ", "game", ".",
                  "print", "(", ")", " ", "setup", "(", ")", " ", "end", ")">>
\* function setup() end
DefSetupOneLine == <<"function", " ", "setup", "(", ")", " ", "end">>

\* control.lua alone, its handler accessing game directly: setup defined nowhere,
\* on two lines above the handler, on one line above it, below a handler of
\* several lines.
DirectParts == {
    <<File("control.lua", TRUE, <<OnLoadDirect, <<>>>>)>>,
    <<File("control.lua", TRUE, <<DefSetup, End, OnLoadDirect, <<>>>>)>>,
    <<File("control.lua", TRUE, <<DefSetupOneLine, OnLoadDirect, <<>>>>)>>,
    <<File("control.lua", TRUE,
           <<OnLoadOpen, GamePrint, CallSetup, EndParen, DefSetup, End, <<>>>>)>> }

Corpora ==
    {c \o b \o <<a>> : c \in ControlParts, b \in LibBParts, a \in LibAFiles}
    \cup DirectParts

\* Every file of every corpus.
AllFiles == {f : f \in UNION {{c[k] : k \in 1..Len(c)} :
                                 c \in ControlParts \cup LibBParts \cup DirectParts}
                            \cup LibAFiles}

\* find_function_definitions is a pure function of the file; its values are
\* tabulated once (f @@ <<>> is the function f, enumerated).
DefinitionTable == [f \in AllFiles |-> find_function_definitions(LuaParser(f))] @@ <<>>

\* find_function_calls is a pure function of the file and the name; its values
\* for the indexed names of each file are tabulated once.
CallTable ==
    [f \in AllFiles |->
        LET p == LuaParser(f)
        IN [n \in DOMAIN DefinitionTable[f] |-> find_function_calls(p, n)] @@ <<>>] @@ <<>>

\* find_on_load_functions is a pure function of control.lua; its values are
\* tabulated once.
OnLoadTable ==
    [f \in UNION {Range(c) : c \in ControlParts \cup DirectParts} |->
        find_on_load_functions(LuaParser(f))] @@ <<>>

\* Every name some file of some corpus defines.
AllNames == {n : n \in UNION {DOMAIN DefinitionTable[f] : f \in AllFiles}}

\* check_forbidden_globals is a pure function of the file and the name: whether
\* it raises, and the errors it returns otherwise, tabulated once.
CheckTable ==
    [f \in AllFiles |->
        LET p == LuaParser(f)
        IN [n \in AllNames |->
               [raises |-> check_raises(p, n),
                errors |-> IF check_raises(p, n) THEN <<>>
                           ELSE check_forbidden_globals(p, n, <<"game", "rendering">>)]]
               @@ <<>>] @@ <<>>

(***************************************************************************)
(* validate_changelog.py: ChangelogValidator                               *)
(*                                                                         *)
(* A line of a changelog is a sequence of tokens: the characters " ", tab, *)
(* newline, "-", ":" and "." one token each, a word or a run of digits one *)
(* token.  The character offsets the source slices at (line[2:], line[6:], *)
(* line[9:]) all follow a startswith test that fixes the tokens before the *)
(* offset.                                                                 *)
(***************************************************************************)
\* "-" * 99
SeparatorLength == 99

\* The largest version number component allowed.
MaxVersionNumber == 65535

\* What str.strip() removes.
Whitespace == {" ", "\t", "\n"}

\* The runs of digits that occur in the changelogs, with int() of each.
NumeralValue == [n \in {"0", "1", "2", "65536"} |->
                    CASE n = "0" -> 0 [] n = "1" -> 1 [] n = "2" -> 2
                      [] n = "65536" -> MaxVersionNumber + 1]

RECURSIVE LStrip(_)
\* s.lstrip()
LStrip(s) == IF s # <<>> /\ Head(s) \in Whitespace THEN LStrip(Tail(s)) ELSE s

RECURSIVE RStripChars(_, _)
\* s.rstrip(chars)
RStripChars(s, chars) ==
    IF s # <<>> /\ s[Len(s)] \in chars THEN RStripChars(SubSeq(s, 1, Len(s) - 1), chars)
    ELSE s

\* s.strip()
Strip(s) == RStripChars(LStrip(s), Whitespace)

\* s.startswith(prefix)
StartsWithTokens(s, prefix) ==
    Len(prefix) <= Len(s) /\ SubSeq(s, 1, Len(prefix)) = prefix

\* char * n
Repeat(char, n) == [k \in 1..n |-> char]

\* Optional[str]: None, or a string.
NoneStr == [some |-> FALSE, value |-> <<>>]

SomeStr(s) == [some |-> TRUE, value |-> s]

\* ChangelogValidator.__init__ (lines 25-30).
NewValidator ==
    [errors |-> <<>>, versions_seen |-> {}, current_version |-> NoneStr,
     current_category |-> NoneStr, entries_in_current_category |-> {}]

\* add_error (lines 32-34); the message is left out, the rule tells the errors
\* apart.
add_error(self, line_number, rule) ==
    [self EXCEPT !.errors = Append(@, [line_number |-> line_number, rule |-> rule])]

\* _check_basic_formatting (lines 86-93).
check_basic_formatting(self, line, line_number) ==
    LET s1 == IF "\t" \in Range(line) THEN add_error(self, line_number, "NO_TABS")
              ELSE self
        body == RStripChars(line, {"\n"})
    IN IF body # <<>> /\ body[Len(body)] = " "
       THEN add_error(s1, line_number, "NO_TRAILING_SPACES")
       ELSE s1

\* Mutant of is_version_separator: every line of dashes is a separator.
is_version_separator_dashes(line) == Range(Strip(line)) = {"-"}

\* _is_version_separator (lines 95-97).
is_version_separator(line) == Strip(line) = Repeat("-", SeparatorLength)

\* _validate_version_separator (lines 99-108).
validate_version_separator(self, line, line_number) ==
    LET stripped == Strip(line)
    IN IF stripped = Repeat("-", SeparatorLength) THEN self
       ELSE IF Range(stripped) = {"-"}
       THEN add_error(self, line_number, "SEPARATOR_LENGTH")
       ELSE add_error(self, line_number, "SEPARATOR_INVALID")

\* re.match(r'^(\d+)\.(\d+)\.(\d+)$', version_part)
VersionPattern(version_part) ==
    /\ Len(version_part) = 5
    /\ version_part[1] \in DOMAIN NumeralValue /\ version_part[2] = "."
    /\ version_part[3] \in DOMAIN NumeralValue /\ version_part[4] = "."
    /\ version_part[5] \in DOMAIN NumeralValue

RECURSIVE VersionRange(_, _, _)
\* Lines 131-134: one VERSION_RANGE error for each number above the maximum.
VersionRange(self, nums, line_number) ==
    IF nums = <<>> THEN self
    ELSE VersionRange(IF Head(nums) > MaxVersionNumber
                      THEN add_error(self, line_number, "VERSION_RANGE") ELSE self,
                      Tail(nums), line_number)

\* _validate_version_line (lines 110-148).
validate_version_line(self, line, line_number) ==
    IF ~StartsWithTokens(line, <<"Version", ":", " ">>)
    THEN add_error(self, line_number, "VERSION_FORMAT")
    ELSE LET version_part == Strip(Slice(line, 3, Len(line)))
         IN IF ~VersionPattern(version_part)
            THEN add_error(self, line_number, "VERSION_PATTERN")
            ELSE LET major == NumeralValue[version_part[1]]
                     minor == NumeralValue[version_part[3]]
                     patch == NumeralValue[version_part[5]]
                     s1 == VersionRange(self, <<major, minor, patch>>, line_number)
                     s2 == IF major = 0 /\ minor = 0 /\ patch = 0
                           THEN add_error(s1, line_number, "VERSION_ZERO") ELSE s1
                     s3 == IF version_part \in s2.versions_seen
                           THEN add_error(s2, line_number, "DUPLICATE_VERSION")
                           ELSE [s2 EXCEPT !.versions_seen = @ \cup {version_part}]
                 IN [s3 EXCEPT !.current_version = SomeStr(version_part)]

\* _validate_date_line (lines 150-154).
validate_date_line(self, line, line_number) ==
    IF ~StartsWithTokens(line, <<"Date", ":", " ">>)
    THEN add_error(self, line_number, "DATE_FORMAT")
    ELSE self

\* _validate_category_line (lines 156-173).
validate_category_line(self, line, line_number) ==
    IF ~StartsWithTokens(line, Repeat(" ", 2))
    THEN add_error(self, line_number, "CATEGORY_INDENT")
    ELSE IF StartsWithTokens(line, Repeat(" ", 4)) THEN self
    ELSE LET content == Strip(Slice(line, 2, Len(line)))
             s1 == IF content = <<>> \/ content[Len(content)] # ":"
                   THEN add_error(self, line_number, "CATEGORY_COLON") ELSE self
         IN [s1 EXCEPT !.current_category = SomeStr(RStripChars(content, {":"})),
                       !.entries_in_current_category = {}]

\* _check_duplicate_entry (lines 204-210).
check_duplicate_entry(self, content, line_number) ==
    IF content \in self.entries_in_current_category
    THEN add_error(self, line_number, "DUPLICATE_ENTRY")
    ELSE [self EXCEPT !.entries_in_current_category = @ \cup {content}]

\* _validate_entry_line (lines 175-202).
validate_entry_line(self, line, line_number) ==
    IF ~self.current_category.some
    THEN add_error(self, line_number, "ENTRY_NO_CATEGORY")
    ELSE IF StartsWithTokens(line, Repeat(" ", 4) \o <<"-", " ">>)
    THEN check_duplicate_entry(self, Strip(Slice(line, 6, Len(line))), line_number)
    ELSE IF StartsWithTokens(line, Repeat(" ", 6))
    THEN LET line_content == Strip(Slice(line, 6, Len(line)))
             s1 == IF line_content = <<>>
                   THEN add_error(self, line_number, "EMPTY_CONTINUATION") ELSE self
         IN check_duplicate_entry(s1, line_content, line_number)
    ELSE LET spaces == Len(line) - Len(LStrip(line))
         IN IF spaces < 4 THEN add_error(self, line_number, "ENTRY_INDENT")
            ELSE IF /\ StartsWithTokens(line, Repeat(" ", 4))
                    /\ ~StartsWithTokens(line, Repeat(" ", 4) \o <<"-", " ">>)
            THEN add_error(self, line_number, "ENTRY_DASH")
            ELSE self

\* _reset_version_context (lines 212-216).
reset_version_context(self) ==
    [self EXCEPT !.current_version = NoneStr, !.current_category = NoneStr,
                 !.entries_in_current_category = {}]

\* One iteration of the loop of _validate_lines (lines 52-84) for line number i:
\* the validator and expecting_version_after_separator after it.
validate_line(self, expecting, line, i) ==
    LET s0 == check_basic_formatting(self, line, i)
    IN IF Strip(line) = <<>>
       THEN <<IF expecting THEN add_error(s0, i, "EMPTY_AFTER_SEPARATOR") ELSE s0,
              expecting>>
       ELSE IF is_version_separator(line)
       THEN <<reset_version_context(validate_version_separator(s0, line, i)), TRUE>>
       ELSE IF StartsWithTokens(line, <<"Version", ":">>)
       THEN <<validate_version_line(
                  IF ~expecting THEN add_error(s0, i, "VERSION_WITHOUT_SEPARATOR")
                  ELSE s0, line, i),
              FALSE>>
       ELSE IF StartsWithTokens(line, <<"Date", ":">>)
       THEN <<validate_date_line(s0, line, i), expecting>>
       ELSE IF StartsWithTokens(line, Repeat(" ", 2))
               /\ ~StartsWithTokens(line, Repeat(" ", 4))
       THEN <<validate_category_line(s0, line, i), expecting>>
       ELSE IF StartsWithTokens(line, Repeat(" ", 4))
       THEN <<validate_entry_line(s0, line, i), expecting>>
       ELSE <<add_error(s0, i, "INVALID_LINE_FORMAT"), expecting>>

(***************************************************************************)
(* The changelogs validated                                                *)
(***************************************************************************)
\* Number of validate_file calls made on the one validator instance.
MaxCalls == 2

\* Longest changelog built freely from ChangelogLineKinds.
MaxChangelogLines == 2

V100 == <<"1", ".", "0", ".", "0">>

V200 == <<"2", ".", "0", ".", "0">>

V000 == <<"0", ".", "0", ".", "0">>

VBig == <<"65536", ".", "0", ".", "0">>

\* the separator, 99 dashes
SeparatorLine == Repeat("-", SeparatorLength) \o <<"\n">>
\* a line of dashes, one dash short
ShortSeparatorLine == Repeat("-", SeparatorLength - 1) \o <<"\n">>
\* a line of dashes, one dash too many
LongSeparatorLine == Repeat("-", SeparatorLength + 1) \o <<"\n">>
\* Version: X.Y.Z
VersionLine(v) == <<"Version", ":", " ">> \o v \o <<"\n">>
\* Version:1.0.0
VersionNoSpace == <<"Version", ":">> \o V100 \o <<"\n">>
\* Date: today
DateLine == <<"Date", ":", " ", "today", "\n">>
\*   Changes:
CategoryLine == <<" ", " ", "Changes", ":", "\n">>
\*   Changes:   (with a tab and a trailing space)
CategoryLineUntidy == <<" ", " ", "Changes", ":", "\t", " ", "\n">>
\*     - fixed
EntryLine == <<" ", " ", " ", " ", "-", " ", "fixed", "\n">>
\* the empty line
EmptyLine == <<"\n">>

ChangelogLineKinds == {SeparatorLine, VersionLine(V100), EmptyLine}

FreeChangelogs ==
    UNION {[1..n -> ChangelogLineKinds] : n \in 1..MaxChangelogLines}

\* Whole changelogs for the rules the free ones do not reach.
ScenarioChangelogs == {
    <<SeparatorLine, VersionLine(V100), DateLine, CategoryLine, EntryLine>>,
    <<SeparatorLine, VersionLine(V200), CategoryLine, EntryLine, EntryLine>>,
    <<SeparatorLine, VersionLine(V200), EntryLine>>,
    <<EntryLine>>,
    <<ShortSeparatorLine, VersionLine(V200)>>,
    <<SeparatorLine, VersionLine(VBig)>>,
    <<SeparatorLine, VersionLine(V000)>>,
    <<SeparatorLine, VersionNoSpace>>,
    <<SeparatorLine, VersionLine(V200), CategoryLineUntidy>>,
    <<LongSeparatorLine, VersionLine(V200)>>,
    <<SeparatorLine, DateLine, VersionLine(V100), VersionLine(V200)>>,
    <<SeparatorLine, EmptyLine, VersionLine(V100), SeparatorLine, VersionLine(V200)>> }

\* The files validate_file is called with; one of them cannot be read.
Changelogs ==
    {File("changelog.txt", TRUE, ls) : ls \in FreeChangelogs \cup ScenarioChangelogs}
    \cup {File("changelog.txt", FALSE, <<>>)}

(***************************************************************************)
(* validate_file, called again and again on one validator                  *)
(***************************************************************************)
\* validator = ChangelogValidator(), no call made yet.
ValidatorInit ==
    /\ validator = NewValidator
    /\ changelog_pc = "idle"
    /\ filepath = File("", FALSE, <<>>)
    /\ changelog_lines = <<>>
    /\ line_index = 0
    /\ expecting_version_after_separator = FALSE
    /\ is_valid = FALSE
    /\ calls = 0

\* Lines 38-43 and 50: validate_file(filepath) is called; the file is read, or
\* FILE_READ is added and False returned.
OpenFile ==
    /\ UNCHANGED <<load_vars, scan_vars>>
    /\ changelog_pc = "idle"
    /\ calls < MaxCalls
    /\ calls' = calls + 1
    /\ \E f \in Changelogs :
          /\ filepath' = f
          /\ IF f.readable
             THEN /\ changelog_lines' = f.lines
                  /\ line_index' = 1
                  /\ expecting_version_after_separator' = FALSE
                  /\ changelog_pc' = "lines"
                  /\ UNCHANGED <<validator, is_valid>>
             ELSE /\ validator' = add_error(validator, 0, "FILE_READ")
                  /\ is_valid' = FALSE
                  /\ UNCHANGED <<changelog_pc, changelog_lines, line_index,
                                 expecting_version_after_separator>>

\* Lines 52-84: one iteration of the loop of _validate_lines.
ValidateLines ==
    /\ UNCHANGED <<load_vars, scan_vars>>
    /\ changelog_pc = "lines"
    /\ line_index <= Len(changelog_lines)
    /\ LET r == validate_line(validator, expecting_version_after_separator,
                              changelog_lines[line_index], line_index)
       IN /\ validator' = r[1]
          /\ expecting_version_after_separator' = r[2]
    /\ line_index' = line_index + 1
    /\ UNCHANGED <<changelog_pc, filepath, changelog_lines, is_valid, calls>>

\* Line 46: return len(self.errors) == 0.
ReturnValid ==
    /\ UNCHANGED <<load_vars, scan_vars>>
    /\ changelog_pc = "lines"
    /\ line_index > Len(changelog_lines)
    /\ is_valid' = (Len(validator.errors) = 0)
    /\ changelog_pc' = "idle"
    /\ UNCHANGED <<validator, filepath, changelog_lines, line_index,
                   expecting_version_after_separator, calls>>

ChangelogNext ==
    \/ OpenFile
    \/ ValidateLines
    \/ ReturnValid

(***************************************************************************)
(* The LuaParser methods called on their own                               *)
(***************************************************************************)
\* Longest line built freely from LexTokens.
MaxTokens == 4

\* Longest body, in lines after the definition line, built freely from BodyLines.
MaxBodyLines == 3

\* The tokens the lines of the lexical queries are built from: the two quotes,
\* the backslash, a word, the comment marker.
LexTokens == {"\"", "'", "\\", "x", "--"}

LexLines == UNION {[1..n -> LexTokens] : n \in 1..MaxTokens}

\* -- game.print()
CommentedAccess == <<"--", " ", "game", ".", "print", "(", ")">>
\*   -- game.print()
IndentedCommentAccess == <<" ", "--", " ", "game", ".", "print", "(", ")">>
\*  helper() -- game.print()
TrailingCommentAccess == <<" ", "helper", "(", ")", " ", "--", " ", "game", ".", "print",
                           "(", ")">>
\*  local s = "--" -- rendering.clear()
CommentAfterString == <<" ", "local", " ", "s", " ", "=", " ", "\"", "--", "\"", " ",
                        "--", " ", "rendering", ".", "clear", "(", ")">>
\* --[[
BlockOpen == <<"--[[">>
\* ]]
BlockClose == <<"]]">>
\*  -- helper()
CommentedCall == <<" ", "--", " ", "helper", "(", ")">>
\*  local s = "helper()"
StringCall == <<" ", "local", " ", "s", " ", "=", " ", "\"", "helper", "(", ")", "\"">>
\*  if (x) then M.ready()
IfCall == <<" ", "if", " ", "(", "x", ")", " ", "then", " ", "M", ".", "ready", "(", ")">>
\* function setup() script.on_event(e, function() end) end
DefSetupRegistering == <<"function", " ", "setup", "(", ")", " ", "script", ".",
                         "on_event", "(", "e", ",", " ", "function", "(", ")", " ",
                         "end", ")", " ", "end">>
\*  end end
EndEnd == <<" ", "end", " ", "end">>

\* The lines a body is built from freely.
BodyLines == {End, GamePrint, CommentedAccess, OnEvent, EndParen, CallHelper}

\* function setup() followed by up to MaxBodyLines lines.
FreeBodies ==
    UNION {{<<DefSetup>> \o b : b \in [1..n -> BodyLines]} : n \in 1..MaxBodyLines}

\* Whole files for the constructs the free bodies do not hold.
ScenarioBodies == {
    \* comments after indentation, after code, after a string that holds --
    <<DefSetup, IndentedCommentAccess, End, <<>>>>,
    <<DefSetup, TrailingCommentAccess, End, <<>>>>,
    <<DefSetup, CommentAfterString, End, <<>>>>,
    \* a block comment inside the body
    <<DefSetup, BlockOpen, GamePrint, End, BlockClose, GamePrint, End, <<>>>>,
    \* a comment after indentation that holds the word function
    <<DefSetup, IndentedComment, GamePrint, End, <<>>>>,
    \* calls mentioned in a comment and in a string only
    <<DefSetup, CommentedCall, End, DefHelper, End, <<>>>>,
    <<DefSetup, StringCall, End, DefHelper, End, <<>>>>,
    \* a keyword and a qualified name before a parenthesis
    <<DefSetup, IfCall, End, End, <<>>>>,
    \* closures: nested registrations, a registration on the definition line,
    \* more closing than opening keywords on a line of the closure
    <<DefSetup, OnEvent, OnEventOneLine, GamePrint, EndParen, End, <<>>>>,
    <<DefSetup, OnEvent, GamePrint, EndParen, ThreeAccesses, End, <<>>>>,
    <<DefSetupRegistering, GamePrint, End, <<>>>>,
    <<DefSetup, OnEvent, EndEnd, GamePrint, <<>>>>,
    \* a function of one line, the last line of the file or not
    <<DefSetupOneLine>>,
    <<DefSetupOneLine, GamePrint, GamePrint, <<>>>>,
    \* accesses inside string literals
    <<DefSetup, StringAccess, End, <<>>>>,
    <<DefSetup, EscapedBackslash, End, <<>>>> }

\* The files a LuaParser is made of.
ParserFiles ==
    {File("lib_a.lua", TRUE, ls) :
         ls \in {<<l>> : l \in LexLines} \cup FreeBodies \cup ScenarioBodies}

\* The lines _is_in_string is called with.
StringQueryLines == LexLines \cup {StringAccess, EscapedBackslash, CommentAfterString}

\* The names the body of which is looked for.
QueryNames == {<<"setup">>, <<"helper">>}

\* No parser made yet, no call.
ParserInit ==
    /\ parser = LuaParser(File("", TRUE, <<>>))
    /\ method = ""
    /\ scan_pc = "new"
    /\ query = <<>>
    /\ scan_start = -1
    /\ scan_end = 0
    /\ scan_line = 0
    /\ scan_in_handler = FALSE
    /\ scan_depth = 0
    /\ scan_errors = <<>>
    /\ returned = <<>>

\* Lines 25-27: LuaParser(content).
NewLuaParser ==
    /\ UNCHANGED <<load_vars, log_vars>>
    /\ scan_pc = "new"
    /\ \E f \in ParserFiles : parser' = LuaParser(f)
    /\ scan_pc' = "idle"
    /\ UNCHANGED <<method, query, scan_start, scan_end, scan_line, scan_in_handler,
                   scan_depth, scan_errors, returned>>

\* Lines 44-53: _is_in_string(line, pos); the method reads nothing of self.
IsInString ==
    /\ UNCHANGED <<load_vars, log_vars>>
    /\ scan_pc = "new"
    /\ \E line \in StringQueryLines : \E pos \in 0..(Len(line) + 1) :
          /\ query' = [line |-> line, pos |-> pos]
          /\ returned' = is_in_string(line, pos)
    /\ method' = "_is_in_string"
    /\ scan_pc' = "returned"
    /\ UNCHANGED <<parser, scan_start, scan_end, scan_line, scan_in_handler,
                   scan_depth, scan_errors>>

\* Lines 29-42: _is_in_comment(line_num, pos).
IsInComment ==
    /\ UNCHANGED <<load_vars, log_vars>>
    /\ scan_pc = "idle"
    /\ \E line_num \in 0..(Len(parser.lines) - 1) :
       \E pos \in 0..Len(parser.lines[line_num + 1]) :
          /\ query' = [line_num |-> line_num, pos |-> pos]
          /\ returned' = is_in_comment(parser, line_num, pos)
    /\ method' = "_is_in_comment"
    /\ scan_pc' = "returned"
    /\ UNCHANGED <<parser, scan_start, scan_end, scan_line, scan_in_handler,
                   scan_depth, scan_errors>>

\* Lines 97-137: find_function_calls(function_name), with the start_pos and
\* end_pos it computed on the way.
FindFunctionCalls ==
    /\ UNCHANGED <<load_vars, log_vars>>
    /\ scan_pc = "idle"
    /\ \E function_name \in QueryNames :
          LET start_pos == FindStart(parser, function_name, 0)
          IN /\ query' = [function_name |-> function_name]
             /\ scan_start' = start_pos
             /\ scan_end' = IF start_pos = -1 THEN 0 ELSE EndPos(parser, start_pos)
             /\ returned' = find_function_calls(parser, function_name)
    /\ method' = "find_function_calls"
    /\ scan_pc' = "returned"
    /\ UNCHANGED <<parser, scan_line, scan_in_handler, scan_depth, scan_errors>>

\* Lines 139-174: check_forbidden_globals(function_name) up to its scanning
\* loop; lines 152-153 return the empty list when no definition is found.
CheckForbiddenGlobals ==
    /\ UNCHANGED <<load_vars, log_vars>>
    /\ scan_pc = "idle"
    /\ \E function_name \in QueryNames :
          LET start_pos == FindStart(parser, function_name, 0)
          IN /\ query' = [function_name |-> function_name]
             /\ scan_start' = start_pos
             /\ IF start_pos = -1
                THEN /\ scan_pc' = "returned"
                     /\ UNCHANGED <<scan_end, scan_line>>
                ELSE /\ scan_pc' = "scan"
                     /\ scan_end' = EndPos(parser, start_pos)
                     /\ scan_line' = start_pos
    /\ method' = "check_forbidden_globals"
    /\ scan_in_handler' = FALSE
    /\ scan_depth' = 0
    /\ scan_errors' = <<>>
    /\ returned' = <<>>
    /\ UNCHANGED parser

\* Lines 176-205: one iteration of "for line_num in range(start_pos,
\* end_pos + 1)"; self.lines[line_num] raises IndexError past the last line.
ScanLine ==
    /\ UNCHANGED <<load_vars, log_vars>>
    /\ scan_pc = "scan"
    /\ scan_line <= scan_end
    /\ IF scan_line >= Len(parser.lines)
       THEN /\ scan_pc' = "raised"
            /\ UNCHANGED <<scan_line, scan_in_handler, scan_depth, scan_errors>>
       ELSE /\ scan_line' = scan_line + 1
            /\ UNCHANGED scan_pc
            /\ IF is_in_comment(parser, scan_line, 0)
               THEN UNCHANGED <<scan_in_handler, scan_depth, scan_errors>>
               ELSE LET line == parser.lines[scan_line + 1]
                        st == HandlerStep(line, scan_line, scan_start, scan_in_handler,
                                          scan_depth)
                    IN /\ scan_in_handler' = st[1]
                       /\ scan_depth' = st[2]
                       /\ scan_errors' =
                              IF st[3] THEN scan_errors
                              ELSE scan_errors
                                   \o LineErrors(line, scan_line, query.function_name,
                                                 <<"game", "rendering">>)
    /\ UNCHANGED <<parser, method, query, scan_start, scan_end, returned>>

\* Line 207: return errors.
ScanReturn ==
    /\ UNCHANGED <<load_vars, log_vars>>
    /\ scan_pc = "scan"
    /\ scan_line > scan_end
    /\ returned' = scan_errors
    /\ scan_pc' = "returned"
    /\ UNCHANGED <<parser, method, query, scan_start, scan_end, scan_line,
                   scan_in_handler, scan_depth, scan_errors>>

ParserNext ==
    \/ NewLuaParser
    \/ IsInString
    \/ IsInComment
    \/ FindFunctionCalls
    \/ CheckForbiddenGlobals
    \/ ScanLine
    \/ ScanReturn

(***************************************************************************)
(* check_on_load_globals and trace_call_chain as a state machine           *)
(***************************************************************************)
None == [found |-> FALSE, names |-> <<>>]

\* A (file, line, message) tuple of the returned list.  kind tells the messages
\* apart; a forbidden-access message names the function and the global.
Diagnostic(file, line, kind, func, global) ==
    [file |-> file, line |-> line, kind |-> kind, func |-> func, global |-> global]

SetupDiagnostic(kind) == Diagnostic("control.lua", 0, kind, <<>>, "")

\* open(lua_file).read() succeeds.
Readable(i) == corpus[i].readable

Parser(i) == LuaParser(corpus[i])

\* Mutant of NoOnLoadFunctions: only the empty list is refused, None goes on.
NoOnLoadFunctionsEmptyOnly(r) == r.found /\ r.names = <<>>

\* "if not on_load_functions": None and the empty list are both falsy.
NoOnLoadFunctions(r) == ~r.found \/ r.names = <<>>

\* Lines 255-263: the first file named control.lua, or the not-found return.
FindControl ==
    /\ UNCHANGED <<log_vars, scan_vars>>
    /\ pc = "find_control"
    /\ LET found == {i \in 1..Len(corpus) : corpus[i].name = "control.lua"}
           first == IF found = {} THEN 0
                    ELSE CHOOSE i \in found : \A j \in found : i <= j
       IN /\ control_lua' = first
          /\ IF first = 0
             THEN /\ result' = <<SetupDiagnostic("control.lua not found")>>
                  /\ pc' = "returned"
             ELSE /\ pc' = "parse_control"
                  /\ UNCHANGED result
    /\ UNCHANGED <<corpus, on_load_functions, parsers, all_functions, fi, visited,
                   to_visit, expanded, all_on_load_functions, check_parsers,
                   pending, forbidden_order, errors>>

\* Lines 265-275: read and parse control.lua, return a setup diagnostic when it
\* cannot be read or "not on_load_functions".
ParseControl ==
    /\ UNCHANGED <<log_vars, scan_vars>>
    /\ pc = "parse_control"
    /\ IF ~Readable(control_lua)
       THEN /\ result' = <<SetupDiagnostic("Failed to parse control.lua")>>
            /\ pc' = "returned"
            /\ UNCHANGED <<on_load_functions, fi>>
       ELSE LET r == find_on_load_functions(Parser(control_lua))
            IN /\ on_load_functions' = r
               /\ IF NoOnLoadFunctions(r)
                  THEN /\ result' = <<SetupDiagnostic("on_load handler not found")>>
                       /\ pc' = "returned"
                       /\ UNCHANGED fi
                  ELSE /\ pc' = "index"
                       /\ fi' = 1
                       /\ UNCHANGED result
    /\ UNCHANGED <<corpus, control_lua, parsers, all_functions, visited, to_visit,
                   expanded, all_on_load_functions, check_parsers, pending,
                   forbidden_order, errors>>

\* Mutant of IndexNames: a name already in the index keeps its file.
IndexNamesFirstWins(all, functions, lua_file) ==
    [n \in DOMAIN all \cup DOMAIN functions |->
        IF n \in DOMAIN all THEN all[n] ELSE lua_file]

\* all_functions[func_name] = lua_file for every name of functions.
IndexNames(all, functions, lua_file) ==
    [n \in DOMAIN all \cup DOMAIN functions |->
        IF n \in DOMAIN functions THEN lua_file ELSE all[n]]

\* Mutant of NextIndex: the except clause leaves the loop (break).
NextIndexBreak(i, ok) == IF ok THEN i + 1 ELSE Len(corpus) + 1

\* The loop index after file i: "continue" in the except clause goes on with the
\* next file, as the end of the try block does.
NextIndex(i, ok) == i + 1

\* Lines 216-228: one iteration of the loop that parses and indexes the files;
\* a file that cannot be read is skipped (except Exception: continue).
IndexFile ==
    /\ UNCHANGED <<log_vars, scan_vars>>
    /\ pc = "index"
    /\ fi <= Len(corpus)
    /\ IF Readable(fi)
       THEN /\ parsers' = parsers \cup {fi}
            /\ all_functions' =
                  IndexNames(all_functions, find_function_definitions(Parser(fi)), fi)
       ELSE UNCHANGED <<parsers, all_functions>>
    /\ fi' = NextIndex(fi, Readable(fi))
    /\ UNCHANGED <<corpus, pc, control_lua, on_load_functions, visited, to_visit,
                   expanded, all_on_load_functions, check_parsers, pending,
                   forbidden_order, errors, result>>

\* Mutant of InitialWorklist: the first seed is left out.
InitialWorklistTail(initial_functions) == Tail(initial_functions)

\* list(initial_functions): the worklist starts as a copy of the seed list.
InitialWorklist(initial_functions) == initial_functions

\* Lines 230-232: visited = set(), to_visit = list(initial_functions).
StartTrace ==
    /\ UNCHANGED <<log_vars, scan_vars>>
    /\ pc = "index"
    /\ fi > Len(corpus)
    /\ visited' = {}
    /\ to_visit' = InitialWorklist(on_load_functions.names)
    /\ pc' = "trace"
    /\ UNCHANGED <<corpus, control_lua, on_load_functions, parsers, all_functions,
                   fi, expanded, all_on_load_functions, check_parsers, pending,
                   forbidden_order, errors, result>>

\* Mutant of SkipName: the test of the visited set is left out.
SkipNameNotIndexedOnly(func_name, vis, all) == func_name \notin DOMAIN all

\* Mutant of SkipName: names missing from the index are traced too.
SkipNameVisitedOnly(func_name, vis, all) == func_name \in vis

\* "func_name in visited or func_name not in all_functions": continue.
SkipName(func_name, vis, all) == func_name \in vis \/ func_name \notin DOMAIN all

\* Mutant of Pop: the head is read and left on the worklist.
PopNothing(q) == q

\* to_visit after to_visit.pop(0).
Pop(q) == Tail(q)

\* Mutant of CallsOf: only the first call found is pushed.
CallsOfFirst(func_name, all, prs) ==
    IF func_name \in DOMAIN all /\ all[func_name] \in prs
    THEN Slice(CallTable[corpus[all[func_name]]][func_name], 0, 1)
    ELSE <<>>

\* The callees pushed for func_name: find_function_calls in the file the index
\* names, when that file has a parser.
CallsOf(func_name, all, prs) ==
    IF func_name \in DOMAIN all /\ all[func_name] \in prs
    THEN CallTable[corpus[all[func_name]]][func_name]
    ELSE <<>>

\* Lines 234-245: one iteration of the worklist loop.
TraceStep ==
    /\ UNCHANGED <<log_vars, scan_vars>>
    /\ pc = "trace"
    /\ to_visit # <<>>
    /\ LET func_name == Head(to_visit)
       IN IF SkipName(func_name, visited, all_functions)
          THEN /\ to_visit' = Pop(to_visit)
               /\ UNCHANGED <<visited, expanded>>
          ELSE /\ visited' = visited \cup {func_name}
               /\ expanded' = Append(expanded, func_name)
               /\ to_visit' = Pop(to_visit) \o CallsOf(func_name, all_functions, parsers)
    /\ UNCHANGED <<corpus, pc, control_lua, on_load_functions, parsers, all_functions,
                   fi, all_on_load_functions, check_parsers, pending,
                   forbidden_order, errors, result>>

\* Lines 247 and 278-288: the worklist is empty, trace_call_chain returns visited;
\* check_on_load_globals reads every file again into its own parsers dict.
\* The iteration order of the set FORBIDDEN_ON_LOAD_GLOBALS is fixed for the
\* run but not by the program.
TraceReturn ==
    /\ UNCHANGED <<log_vars, scan_vars>>
    /\ pc = "trace"
    /\ to_visit = <<>>
    /\ all_on_load_functions' = visited
    /\ pending' = visited
    /\ check_parsers' = SelectSeq([i \in 1..Len(corpus) |-> i], Readable)
    /\ forbidden_order' \in {<<"game", "rendering">>, <<"rendering", "game">>}
    /\ pc' = "check"
    /\ UNCHANGED <<corpus, control_lua, on_load_functions, parsers, all_functions,
                   fi, visited, to_visit, expanded, errors, result>>

RECURSIVE FileErrors(_, _, _)
\* Lines 291-294 for one func_name: the errors of every parser, in dict order.
FileErrors(prs, func_name, globals) ==
    IF prs = <<>> THEN <<>>
    ELSE LET lua_file == Head(prs)
             func_errors == check_forbidden_globals(Parser(lua_file), func_name, globals)
         IN [k \in 1..Len(func_errors) |->
                Diagnostic(corpus[lua_file].name, func_errors[k].line, "forbidden",
                           func_errors[k].func, func_errors[k].global)]
            \o FileErrors(Tail(prs), func_name, globals)

\* Some parser raises IndexError while func_name is checked.
Raises(prs, func_name) ==
    \E k \in 1..Len(prs) : check_raises(Parser(prs[k]), func_name)

\* Lines 290-294: one iteration of "for func_name in all_on_load_functions"
\* (a set: any order).  The exception is not caught: it leaves
\* check_on_load_globals, and nothing is returned.
CheckFunction ==
    /\ UNCHANGED <<log_vars, scan_vars>>
    /\ pc = "check"
    /\ \E func_name \in pending :
          /\ pending' = pending \ {func_name}
          /\ IF Raises(check_parsers, func_name)
             THEN /\ pc' = "raised"
                  /\ UNCHANGED errors
             ELSE /\ errors' = errors \o FileErrors(check_parsers, func_name, forbidden_order)
                  /\ UNCHANGED pc
    /\ UNCHANGED <<corpus, control_lua, on_load_functions, parsers, all_functions,
                   fi, visited, to_visit, expanded, all_on_load_functions,
                   check_parsers, forbidden_order, result>>

\* Line 296: return errors.
Return ==
    /\ UNCHANGED <<log_vars, scan_vars>>
    /\ pc = "check"
    /\ pending = {}
    /\ result' = errors
    /\ pc' = "returned"
    /\ UNCHANGED <<corpus, control_lua, on_load_functions, parsers, all_functions,
                   fi, visited, to_visit, expanded, all_on_load_functions,
                   check_parsers, pending, forbidden_order, errors>>

\* Line 253: lua_files = find_lua_files().
FindLuaFiles ==
    /\ UNCHANGED <<log_vars, scan_vars>>
    /\ pc = "start"
    /\ corpus' \in Corpora
    /\ pc' = "find_control"
    /\ UNCHANGED <<control_lua, on_load_functions, parsers, all_functions, fi,
                   visited, to_visit, expanded, all_on_load_functions,
                   check_parsers, pending, forbidden_order, errors, result>>

Next ==
    \/ FindLuaFiles
    \/ FindControl
    \/ ParseControl
    \/ IndexFile
    \/ StartTrace
    \/ TraceStep
    \/ TraceReturn
    \/ CheckFunction
    \/ Return

Init ==
    /\ corpus = <<>>
    /\ pc = "start"
    /\ control_lua = 0
    /\ on_load_functions = None
    /\ parsers = {}
    /\ all_functions = <<>>
    /\ fi = 0
    /\ visited = {}
    /\ to_visit = <<>>
    /\ expanded = <<>>
    /\ all_on_load_functions = {}
    /\ check_parsers = <<>>
    /\ pending = {}
    /\ forbidden_order = <<>>
    /\ errors = <<>>
    /\ result = <<>>
    /\ ValidatorInit
    /\ ParserInit

Spec == Init /\ [][Next]_vars

\* The changelog validator: one instance, validate_file called up to MaxCalls
\* times.
ChangelogSpec == Init /\ [][ChangelogNext]_vars

\* One LuaParser, one call of one of its methods.
ParserSpec == Init /\ [][ParserNext]_vars

\* The loops of the program run to their end: every step that can be taken is
\* taken eventually.
FairSpec == Spec /\ WF_vars(TraceStep)

(***************************************************************************)
(* Properties                                                              *)
(***************************************************************************)
\* The file control.lua that FindControl picks, 0 when the corpus has none.
ControlIndex ==
    LET found == {i \in 1..Len(corpus) : corpus[i].name = "control.lua"}
    IN IF found = {} THEN 0 ELSE CHOOSE i \in found : \A j \in found : i <= j

\* control.lua is present, can be read, and its text matches the
\* script.on_load(function() ... end) registration.
HasRegistration ==
    /\ ControlIndex # 0
    /\ corpus[ControlIndex].readable
    /\ OnLoadSearch(Join(corpus[ControlIndex].lines), 0).ok

\* control.lua is present, can be read, and holds no registration.
NoRegistration ==
    /\ ControlIndex # 0
    /\ corpus[ControlIndex].readable
    /\ ~OnLoadSearch(Join(corpus[ControlIndex].lines), 0).ok

\* Nothing of trace_call_chain or of the checking loop has happened.
NothingTraversed ==
    /\ parsers = {} /\ all_functions = <<>> /\ visited = {} /\ to_visit = <<>>
    /\ expanded = <<>> /\ check_parsers = <<>> /\ pending = {} /\ errors = <<>>

\* C3: trace_call_chain terminates: once the worklist loop is entered, the
\* worklist becomes empty, whatever the call graph (self calls and cycles
\* included).
C3_WorklistEmpties == (pc = "trace") ~> (pc = "trace" /\ to_visit = <<>>)

\* C3 witness: the worklist has run empty after tracing a function that calls
\* itself and two functions that call each other.
C3_Witness ==
    /\ pc = "trace" /\ to_visit = <<>>
    /\ \E f \in visited : f \in Range(CallsOf(f, all_functions, parsers))
    /\ \E f, g \in visited :
          /\ f # g
          /\ g \in Range(CallsOf(f, all_functions, parsers))
          /\ f \in Range(CallsOf(g, all_functions, parsers))

\* C4: at every step the visited set holds indexed names only, so it is never
\* larger than the set of indexed names.
C4_VisitedIndexed ==
    /\ visited \subseteq DOMAIN all_functions
    /\ Cardinality(visited) <= Cardinality(DOMAIN all_functions)

\* C4 witness: in the middle of a traversal, two names visited, and a name that
\* is not indexed waiting on the worklist.
C4_Witness ==
    /\ pc = "trace"
    /\ Cardinality(visited) >= 2
    /\ \E n \in Range(to_visit) : n \notin DOMAIN all_functions

\* C7: control.lua missing, or present without a registration: the run returns
\* exactly one diagnostic, a setup diagnostic for control.lua at line 0, and
\* nothing is traversed or checked.
C7_SetupError ==
    (pc # "start" /\ (ControlIndex = 0 \/ NoRegistration)) =>
        /\ pc \in {"find_control", "parse_control", "returned"}
        /\ NothingTraversed
        /\ pc = "returned" =>
              /\ Len(result) = 1
              /\ result[1].file = "control.lua"
              /\ result[1].line = 0
              /\ result[1].kind # "forbidden"

\* C7 witness: a run has returned for a control.lua without registration,
\* beside a lib_a.lua that holds a forbidden access.
C7_Witness ==
    /\ NoRegistration
    /\ pc = "returned"
    /\ \E i \in 1..Len(corpus) :
          /\ corpus[i].name = "lib_a.lua"
          /\ GamePrint \in Range(corpus[i].lines)

(***************************************************************************)
(* What the source text means, for the properties about forbidden accesses *)
(***************************************************************************)
RECURSIVE LuaStringState(_, _)
\* The lexical state of Lua after the first n tokens of a line: <<quote, esc>>,
\* quote the open quote ("" in code), esc whether a backslash inside the string
\* escapes the next character (so \\ is a backslash and escapes nothing).
LuaStringState(line, n) ==
    IF n <= 0 THEN <<"", FALSE>>
    ELSE LET st == LuaStringState(line, n - 1)
             t == Tok(line, n - 1)
         IN IF st[1] = "" THEN (IF t \in {"\"", "'"} THEN <<t, FALSE>> ELSE st)
            ELSE IF st[2] THEN <<st[1], FALSE>>
            ELSE IF t = "\\" THEN <<st[1], TRUE>>
            ELSE IF t = st[1] THEN <<"", FALSE>>
            ELSE st

\* Position pos of the line lies inside a quoted string literal.
InLuaString(line, pos) == LuaStringState(line, pos)[1] # ""

\* Position pos of the line lies inside a comment: after a -- that is not in a
\* string, or in a --[[ block left open by the lines before.
InLuaComment(p, line_num, pos) ==
    LET line == p.lines[line_num + 1]
        before == BeforePos(p, line_num, 0)
    IN \/ \E c \in 0..(pos - 1) :
             Tok(line, c) \in {"--", "--[["} /\ ~InLuaString(line, c)
       \/ Count(before, "--[[") > Count(before, "]]")

RECURSIVE ClosureEnd(_, _, _)
\* The last line of the closure opened on a registration line: the first line
\* from line_num on at which the function/end count, started at 0 on the
\* registration line and never reset, is back at 0 or below; the last line of
\* the file when that does not happen.
ClosureEnd(p, line_num, depth) ==
    IF line_num >= Len(p.lines) THEN Len(p.lines) - 1
    ELSE LET line == p.lines[line_num + 1]
             d == depth + Count(line, "function") - Count(line, "end")
         IN IF d <= 0 THEN line_num ELSE ClosureEnd(p, line_num + 1, d)

\* Line line_num lies inside a script.on_event(..., function(...) ... end)
\* closure registered on it or on a line before it.
InClosure(p, line_num) ==
    \E r \in 0..line_num :
        /\ EntersEventHandler(p.lines[r + 1])
        /\ ~is_in_comment(p, r, 0)
        /\ line_num <= ClosureEnd(p, r, 0)

\* The accesses to global R at top level on a line: the matches of R. that are
\* not in a string literal, not in a comment and not in a nested closure.
TopLevelAccesses(p, line_num, R) ==
    IF InClosure(p, line_num) THEN <<>>
    ELSE SelectSeq(GlobalMatches(p.lines[line_num + 1], R, 0),
                   LAMBDA m: /\ ~InLuaString(p.lines[line_num + 1], m)
                             /\ ~InLuaComment(p, line_num, m))

\* The file of the corpus with the given name (the names of a corpus differ).
FileNamed(name) == CHOOSE i \in 1..Len(corpus) : corpus[i].name = name

\* Line line_num of the file defines a function of the given name.
DefinesName(p, line_num, name) ==
    /\ ~is_in_comment(p, line_num, 0)
    /\ \E m \in Range(DefMatches(p.lines[line_num + 1], 0)) :
          m.name = name /\ ~is_in_string(p.lines[line_num + 1], m.start)

\* The forbidden-access diagnostics of a list.
Forbidden(list) == {d \in Range(list) : d.kind = "forbidden"}

\* The run is over: a list was returned, or an exception left the function.
Finished == pc \in {"returned", "raised"}

\* C1 (fails on the code, see C9): when the run is over, for every reachable
\* function f, in the file the index names, every line of its body and every
\* forbidden global R: the top-level accesses to R on the line are reported,
\* one diagnostic with that file, that line and R for each.
C1_EachAccessReportedOnce ==
    Finished =>
        \A f \in visited :
            LET i == all_functions[f]
                p == Parser(i)
                start_pos == FindStart(p, f, 0)
                end_pos == EndPos(p, start_pos)
                last == IF end_pos < Len(p.lines) THEN end_pos ELSE Len(p.lines) - 1
            IN start_pos # -1 =>
                 \A line_num \in start_pos..last : \A R \in FORBIDDEN_ON_LOAD_GLOBALS :
                     LET n == Len(TopLevelAccesses(p, line_num, R))
                     IN n > 0 =>
                          /\ pc = "returned"
                          /\ Cardinality({k \in 1..Len(result) :
                                 /\ result[k].file = corpus[i].name
                                 /\ result[k].line = line_num + 1
                                 /\ result[k].global = R}) = n

\* C2 (fails on the code): every forbidden-access diagnostic returned lies in
\* the body of a function reachable from the seeds: its line is between a line
\* that defines a visited name and the end of the body located from that line.
C2_OnlyReachableBodies ==
    pc = "returned" =>
        \A d \in Forbidden(result) :
            LET p == Parser(FileNamed(d.file))
            IN \E f \in visited : \E s \in 0..(d.line - 1) :
                   /\ DefinesName(p, s, f)
                   /\ d.line - 1 <= EndPos(p, s)

\* C5 (fails on the code): no diagnostic is returned for a line inside a
\* recognised script.on_event closure, whatever the closure holds.
C5_ClosureNotReported ==
    pc = "returned" =>
        \A d \in Forbidden(result) : ~InClosure(Parser(FileNamed(d.file)), d.line - 1)

\* C6 (fails on the code): no diagnostic is returned for a global whose accesses
\* on the line are all inside quoted string literals.
C6_StringNotReported ==
    pc = "returned" =>
        \A d \in Forbidden(result) :
            LET line == corpus[FileNamed(d.file)].lines[d.line]
            IN \E m \in Range(GlobalMatches(line, d.global, 0)) : ~InLuaString(line, m)

\* C8 (fails on the code): when control.lua is present and matches the
\* registration, no setup diagnostic is returned.
C8_NoSetupErrorWhenRegistered ==
    (pc = "returned" /\ HasRegistration) => \A d \in Range(result) : d.kind = "forbidden"

\* C9 (fails on the code): check_on_load_globals never ends with an uncaught
\* exception.
C9_NeverRaises == pc # "raised"

\* The files other than control.lua that cannot be read.
UnreadableLibs ==
    {i \in 1..Len(corpus) : ~corpus[i].readable /\ corpus[i].name # "control.lua"}

\* C10 (fails on the code): when the analysis has gone through the
\* files and returned, every unreadable file other than control.lua has a
\* diagnostic at line 0.
C10_UnreadableReported ==
    (pc = "returned" /\ check_parsers # <<>>) =>
        \A i \in UnreadableLibs :
            \E d \in Range(result) : d.file = corpus[i].name /\ d.line = 0

(***************************************************************************)
(* What a corpus determines: the index, the seeds, the reachable names     *)
(***************************************************************************)
RECURSIVE IndexUpTo(_)
\* The function index after the first n files of the corpus were indexed in
\* enumeration order: name -> file, a later file replacing an earlier one.
IndexUpTo(n) ==
    IF n = 0 THEN <<>>
    ELSE IF corpus[n].readable
    THEN IndexNames(IndexUpTo(n - 1), DefinitionTable[corpus[n]], n)
    ELSE IndexUpTo(n - 1)

\* The files of the corpus that can be read.
ReadableFiles == {i \in 1..Len(corpus) : corpus[i].readable}

\* The seeds extracted from control.lua (control.lua present and readable).
SeedsOfCorpus == OnLoadTable[corpus[ControlIndex]]

\* The indexed names among the callees extracted for the indexed name n.
IndexedCallees(idx, n) ==
    {m \in Range(CallTable[corpus[idx[n]]][n]) : m \in DOMAIN idx}

\* S holds every indexed seed and, with a name, its indexed callees.
ClosedUnderCalls(idx, seeds, S) ==
    /\ \A n \in Range(seeds) : n \in DOMAIN idx => n \in S
    /\ \A n \in S : IndexedCallees(idx, n) \subseteq S

\* The least set of indexed names that is closed under calls.
LeastClosed(idx, seeds) ==
    CHOOSE S \in SUBSET DOMAIN idx :
        /\ ClosedUnderCalls(idx, seeds, S)
        /\ \A T \in SUBSET DOMAIN idx : ClosedUnderCalls(idx, seeds, T) => S \subseteq T

\* The run gets past the setup checks: control.lua is there, can be read, and
\* yields a non-empty seed list.
PastSetup ==
    /\ ControlIndex # 0
    /\ corpus[ControlIndex].readable
    /\ SeedsOfCorpus.found /\ SeedsOfCorpus.names # <<>>

\* The names reachable in the corpus.
ReachableOfCorpus == LeastClosed(IndexUpTo(Len(corpus)), SeedsOfCorpus.names)

\* The diagnostics the corpus calls for, as a set: the setup diagnostic, or the
\* forbidden accesses of every reachable name in every readable file.
DiagnosticsOfCorpus ==
    IF ControlIndex = 0 THEN {SetupDiagnostic("control.lua not found")}
    ELSE IF ~corpus[ControlIndex].readable
    THEN {SetupDiagnostic("Failed to parse control.lua")}
    ELSE IF ~PastSetup THEN {SetupDiagnostic("on_load handler not found")}
    ELSE UNION {
        {Diagnostic(corpus[i].name, e.line, "forbidden", e.func, e.global) :
            e \in Range(CheckTable[corpus[i]][f].errors)} :
        f \in ReachableOfCorpus, i \in ReadableFiles}

\* Some check of a reachable name in a readable file raises.
RaisesOnCorpus ==
    /\ PastSetup
    /\ \E f \in ReachableOfCorpus, i \in ReadableFiles :
          CheckTable[corpus[i]][f].raises

\* C11: the outcome of a run is a function of the corpus in its enumeration
\* order: whatever order the run iterates its sets in (the reachable names, the
\* forbidden globals), it returns the set of diagnostics the corpus determines,
\* and it raises exactly when the corpus makes some check raise.  Two runs on
\* the same corpus therefore return the same set.
C11_SameDiagnosticSet ==
    /\ pc = "returned" => (Range(result) = DiagnosticsOfCorpus /\ ~RaisesOnCorpus)
    /\ pc = "raised" => RaisesOnCorpus

\* C11 witness: a run that iterated rendering before game has returned
\* diagnostics for both globals and for two functions.
C11_Witness ==
    /\ pc = "returned"
    /\ forbidden_order = <<"rendering", "game">>
    /\ \E d, e \in Forbidden(result) : d.global # e.global /\ d.line = e.line
    /\ \E d, e \in Forbidden(result) : d.func # e.func

\* The number of diagnostics returned for function f at a 0-based line of file i.
ReportedAt(f, i, line_num) ==
    Cardinality({k \in 1..Len(result) :
        /\ result[k].kind = "forbidden"
        /\ result[k].file = corpus[i].name
        /\ result[k].line = line_num + 1
        /\ result[k].func = f})

\* The number of matches of R. on a line, over the forbidden roots R, that are
\* not inside a quoted string literal.
MatchesOutsideStrings(line) ==
    Len(SelectSeq(GlobalMatches(line, "game", 0), LAMBDA m: ~InLuaString(line, m)))
    + Len(SelectSeq(GlobalMatches(line, "rendering", 0), LAMBDA m: ~InLuaString(line, m)))

\* C12 (fails on the code, see C6 and C9): when the run is over, for every
\* reachable function f and every file in which its body is located, each line
\* of the body that is scanned (not skipped as a comment) outside a nested
\* closure has as many diagnostics for f as it has matches of R. outside string
\* literals.
C12_AllMatchesReported ==
    Finished =>
        \A f \in visited : \A i \in ReadableFiles :
            LET p == Parser(i)
                start_pos == FindStart(p, f, 0)
                end_pos == EndPos(p, start_pos)
                last == IF end_pos < Len(p.lines) THEN end_pos ELSE Len(p.lines) - 1
            IN start_pos # -1 =>
                 \A line_num \in start_pos..last :
                     (~is_in_comment(p, line_num, 0) /\ ~InClosure(p, line_num)) =>
                         ReportedAt(f, i, line_num)
                             = MatchesOutsideStrings(p.lines[line_num + 1])

\* trace_call_chain has left its loop: visited is final.
TraceDone == (pc = "trace" /\ to_visit = <<>>) \/ pc \in {"check", "returned", "raised"}

\* C13 as claimed (fails on the code): every name of the seed list is in the
\* final visited set.
C13_SeedsVisited ==
    TraceDone => Range(on_load_functions.names) \subseteq visited

\* C13 as amended: every name of the seed list that the function index holds is
\* in the final visited set.
C13_IndexedSeedsVisited ==
    TraceDone =>
        \A s \in Range(on_load_functions.names) :
            s \in DOMAIN all_functions => s \in visited

\* C13 witness: the traversal is over for a seed list of two names, one indexed
\* and visited, the other defined nowhere.
C13_Witness ==
    /\ TraceDone
    /\ \E s, t \in Range(on_load_functions.names) :
          /\ s \in DOMAIN all_functions /\ s \in visited
          /\ t \notin DOMAIN all_functions

\* C15: the final visited set is the least set of indexed names that holds the
\* indexed seeds and, with a name, the indexed names among the callees
\* extracted for it; and no name outside the index is ever expanded.
C15_LeastClosedSet ==
    /\ TraceDone => visited = LeastClosed(all_functions, on_load_functions.names)
    /\ Range(expanded) \subseteq DOMAIN all_functions

\* C15 witness: the traversal is over, a name that is not a seed was reached
\* through a call, an indexed name was not reached, and a callee that is not
\* indexed was met.
C15_Witness ==
    /\ TraceDone
    /\ \E n \in visited : n \notin Range(on_load_functions.names)
    /\ \E n \in DOMAIN all_functions : n \notin visited
    /\ \E n \in visited :
          \E m \in Range(CallsOf(n, all_functions, parsers)) : m \notin DOMAIN all_functions

\* C16: in every step the visited set keeps its names, and a step that locates
\* a body and extracts callees does so for one name that was not expanded
\* before: no name is expanded twice, however often it is pushed.
C16_GrowsExpandsOnce ==
    [][/\ visited \subseteq visited'
       /\ expanded' # expanded =>
             \E n \in visited' \ visited :
                 /\ n \notin Range(expanded)
                 /\ expanded' = Append(expanded, n)]_vars

\* C16 witness: in the middle of a traversal a name that was already expanded
\* waits on the worklist twice.
C16_Witness ==
    /\ pc = "trace"
    /\ \E n \in Range(expanded) :
          Cardinality({k \in 1..Len(to_visit) : to_visit[k] = n}) >= 2

\* Every file of the corpus has been read and, when readable, parsed and
\* indexed.
IndexComplete ==
    /\ fi > Len(corpus)
    /\ parsers = ReadableFiles
    /\ all_functions = IndexUpTo(Len(corpus))

\* C17: a step that touches the worklist or the visited set starts from a state
\* in which every file has been read and indexed, and a step of the checking
\* phase starts from a state in which the worklist is empty and the index is
\* complete.
C17_PhaseOrdering ==
    [][/\ (to_visit' # to_visit \/ visited' # visited \/ expanded' # expanded)
              => IndexComplete
       /\ (errors' # errors \/ pending' # pending \/ check_parsers' # check_parsers)
              => (IndexComplete /\ to_visit = <<>> /\ pc \in {"trace", "check"})]_vars

\* C17 witness: the checking phase has recorded a diagnostic for a corpus of
\* three files, one of them unreadable, after a traversal of two names.
C17_Witness ==
    /\ pc = "check"
    /\ errors # <<>>
    /\ Len(corpus) = 3
    /\ UnreadableLibs # {}
    /\ Cardinality(visited) = 2

\* The names the definition pattern matches on some line of each file, in
\* code, comment or string alike, tabulated once.
MatchedNames ==
    [f \in AllFiles |->
        {n : n \in UNION {{m.name : m \in Range(DefMatches(f.lines[l], 0))} :
                              l \in 1..Len(f.lines)}}] @@ <<>>

\* The 0-based lines of each file that define a function of each name the
\* pattern matches in it, tabulated once.
DefinitionLineTable ==
    [f \in AllFiles |->
        [n \in MatchedNames[f] |->
            {l : l \in {k \in 0..(Len(f.lines) - 1) : DefinesName(LuaParser(f), k, n)}}]
            @@ <<>>] @@ <<>>

\* The 0-based lines of readable file i that define a function named n.
DefinitionLines(i, n) ==
    IF n \in MatchedNames[corpus[i]] THEN DefinitionLineTable[corpus[i]][n] ELSE {}

\* The readable files among the first k of the corpus that define n.
DefiningFiles(k, n) == {i \in ReadableFiles : i <= k /\ DefinitionLines(i, n) # {}}

\* The names defined on some line of the first k files.
NamesDefined(k) ==
    UNION {MatchedNames[corpus[i]] : i \in {j \in ReadableFiles : j <= k}}

\* The greatest element of a non-empty set of numbers.
Max(S) == CHOOSE x \in S : \A y \in S : y <= x

\* C18: in the indexing loop, after the first k files were indexed (k up to all
\* of them), the index has one entry for each name they define: the last file in
\* enumeration order that defines the name, and in that file the line recorded
\* is the last line that defines it.
C18_LastDefinitionWins ==
    (pc = "index" /\ fi >= 1) =>
        LET k == fi - 1
        IN /\ \A n \in DOMAIN all_functions :
                 /\ DefiningFiles(k, n) # {}
                 /\ all_functions[n] = Max(DefiningFiles(k, n))
                 /\ DefinitionTable[corpus[all_functions[n]]][n]
                        = Max(DefinitionLines(all_functions[n], n)) + 1
           /\ \A n \in NamesDefined(k) : DefiningFiles(k, n) # {} => n \in DOMAIN all_functions

\* C18 witness: the corpus is indexed, and a name is defined in two files and on
\* two lines of the file enumerated last.
C18_Witness ==
    /\ pc = "index"
    /\ IndexComplete
    /\ \E n \in DOMAIN all_functions :
          /\ Cardinality(DefiningFiles(Len(corpus), n)) >= 2
          /\ Cardinality(DefinitionLines(all_functions[n], n)) >= 2

\* C19 (fails on the code): when the traversal is over, for every name that was
\* expanded, the body its callees were extracted from (and in which the
\* checking phase searches that file) starts on the definition line that
\* find_function_definitions recorded for the name in the file the index names.
C19_BodyAtIndexedSite ==
    (pc = "trace" /\ to_visit = <<>>) =>
        \A n \in Range(expanded) :
            LET p == Parser(all_functions[n])
            IN FindStart(p, n, 0) + 1 = find_function_definitions(p)[n]

\* C20 (fails on the code): every forbidden-access diagnostic returned for a
\* function lies in the file the index maps the function's name to; a function
\* of the same name in another file produces none.
C20_OnlyIndexedFileChecked ==
    pc = "returned" =>
        \A d \in Forbidden(result) : FileNamed(d.file) = all_functions[d.func]

(***************************************************************************)
(* Properties of the changelog validator                                   *)
(***************************************************************************)
RECURSIVE ValidateFrom(_, _, _, _)
\* The validator after the lines from number i on were validated in turn.
ValidateFrom(self, expecting, lines, i) ==
    IF i > Len(lines) THEN self
    ELSE LET r == validate_line(self, expecting, lines[i], i)
         IN ValidateFrom(r[1], r[2], lines, i + 1)

\* The violations of a file: the errors a new validator records for it alone.
Violations(f) ==
    IF f.readable THEN ValidateFrom(NewValidator, FALSE, f.lines, 1).errors
    ELSE <<[line_number |-> 0, rule |-> "FILE_READ"]>>

\* C14 (fails on the code): every call of validate_file on the one instance
\* returns True exactly when the file has no violations, whatever the instance
\* validated before.
C14_ReturnsValidity ==
    (changelog_pc = "idle" /\ calls > 0) => (is_valid <=> Violations(filepath) = <<>>)

\* The line, stripped, consists of dashes only.
DashesOnly(line) == Range(Strip(line)) = {"-"}

\* C29 (fails on the code): every line processed that consists only of dashes
\* and does not have 99 of them has an error with rule SEPARATOR_LENGTH.
C29_SeparatorLengthReported ==
    changelog_pc = "lines" =>
        \A k \in 1..(line_index - 1) :
            (DashesOnly(changelog_lines[k])
                 /\ Len(Strip(changelog_lines[k])) # SeparatorLength) =>
                \E e \in Range(validator.errors) :
                    e.line_number = k /\ e.rule = "SEPARATOR_LENGTH"

\* The line is a version separator: 99 dashes between white space.
SeparatorOfVersions(line) ==
    DashesOnly(line) /\ Len(Strip(line)) = SeparatorLength

\* The line is a Version: line.
VersionHeading(line) ==
    Len(line) >= 2 /\ line[1] = "Version" /\ line[2] = ":"

\* A version separator is among the lines before line i, with no Version: line
\* between it and line i.
SeparatorSinceVersion(lines, i) ==
    \E j \in 1..(i - 1) :
        /\ SeparatorOfVersions(lines[j])
        /\ \A k \in (j + 1)..(i - 1) : ~VersionHeading(lines[k])

\* The errors a step adds to the validator.
ErrorsAdded ==
    {validator'.errors[k] : k \in (Len(validator.errors) + 1)..Len(validator'.errors)}

\* C30: the loop iteration that processes a Version: line adds the error
\* VERSION_WITHOUT_SEPARATOR for it exactly when no version separator was
\* processed since the previous Version: line, or since the start of the file.
C30_VersionWithoutSeparator ==
    [][(changelog_pc = "lines" /\ line_index' = line_index + 1
            /\ VersionHeading(changelog_lines[line_index])) =>
          ([line_number |-> line_index, rule |-> "VERSION_WITHOUT_SEPARATOR"]
               \in ErrorsAdded
           <=> ~SeparatorSinceVersion(changelog_lines, line_index))]_vars

\* C30 witness: a file was processed in which a Version: line follows a
\* separator and a Date: line, and a second Version: line follows the first;
\* only the second one was reported.
C30_Witness ==
    /\ changelog_pc = "lines" /\ calls = 1
    /\ changelog_lines = <<SeparatorLine, DateLine, VersionLine(V100), VersionLine(V200)>>
    /\ line_index = 5
    /\ validator.errors = <<[line_number |-> 4, rule |-> "VERSION_WITHOUT_SEPARATOR"]>>

(***************************************************************************)
(* Properties of the LuaParser methods                                     *)
(***************************************************************************)
RECURSIVE UnescapedBackslash(_, _)
\* The character at position i is a backslash that no backslash escapes: the
\* character before it is not an unescaped backslash.
UnescapedBackslash(line, i) ==
    /\ i >= 0
    /\ Tok(line, i) = "\\"
    /\ ~UnescapedBackslash(line, i - 1)

RECURSIVE QuotesOpen(_, _)
\* <<a single-quoted string is open, a double-quoted string is open>> after the
\* first n characters of the line: a quote toggles the state of its own type
\* unless a string of the other type is open or an unescaped backslash stands
\* before it.
QuotesOpen(line, n) ==
    IF n <= 0 THEN <<FALSE, FALSE>>
    ELSE LET st == QuotesOpen(line, n - 1)
             i == n - 1
             toggles == ~UnescapedBackslash(line, i - 1)
         IN IF Tok(line, i) = "\"" /\ ~st[1] /\ toggles THEN <<st[1], ~st[2]>>
            ELSE IF Tok(line, i) = "'" /\ ~st[2] /\ toggles THEN <<~st[1], st[2]>>
            ELSE st

\* C26 (fails on the code): _is_in_string(line, pos) returns true exactly when
\* a single- or double-quoted string is open after the characters before pos,
\* a quote toggling unless it is inside a string of the other type or follows
\* an unescaped backslash (a quote after an escaped backslash toggles).
C26_InStringToggles ==
    (method = "_is_in_string" /\ scan_pc = "returned") =>
        LET n == IF query.pos < Len(query.line) THEN query.pos ELSE Len(query.line)
            st == QuotesOpen(query.line, n)
        IN returned <=> (st[1] \/ st[2])

\* A string is open at position pos of the line (the contract of C26).
StringOpenAt(line, pos) ==
    LET st == QuotesOpen(line, IF pos < Len(line) THEN pos ELSE Len(line))
    IN st[1] \/ st[2]

\* Position pos of line line_num is in a comment: some -- at or before pos on
\* the line is not inside a string, or the text of the file before the position
\* holds more --[[ than ]].
CommentAt(p, line_num, pos) ==
    LET line == p.lines[line_num + 1]
        before == BeforePos(p, line_num, pos)
    IN \/ \E c \in 0..pos : Tok(line, c) \in {"--", "--[["} /\ ~StringOpenAt(line, c)
       \/ Count(before, "--[[") > Count(before, "]]")

\* C27 (fails on the code): _is_in_comment(line_num, pos) returns true exactly
\* when some -- on the line at or before pos is not inside a string literal,
\* an earlier -- inside a string notwithstanding, or more --[[ than ]] come
\* before the position in the file.
C27_InCommentMarkers ==
    (method = "_is_in_comment" /\ scan_pc = "returned") =>
        (returned <=> CommentAt(parser, query.line_num, query.pos))

\* The call has looked for the body of a function and found its definition.
BodyLocated ==
    /\ method \in {"find_function_calls", "check_forbidden_globals"}
    /\ scan_pc # "idle"
    /\ scan_start # -1

\* The line is a comment as a whole: it lies in a --[[ block the lines before
\* left open, or a -- that is not in a string is its first token after the
\* indentation.
CommentLine(p, line_num) == CommentAt(p, line_num, SkipWs(p.lines[line_num + 1], 0))

RECURSIVE DepthAfter(_, _, _)
\* depth after line line_num: the sum, over the lines from start_pos to
\* line_num that are not comment lines, of the number of function keywords less
\* the number of end keywords on the line.
DepthAfter(p, start_pos, line_num) ==
    IF line_num < start_pos THEN 0
    ELSE DepthAfter(p, start_pos, line_num - 1)
         + (IF CommentLine(p, line_num) THEN 0
            ELSE Count(p.lines[line_num + 1], "function")
                 - Count(p.lines[line_num + 1], "end"))

\* The lines after start_pos that are not comment lines and at which depth is 0.
ClosingLines(p, start_pos) ==
    {l \in (start_pos + 1)..(Len(p.lines) - 1) :
        ~CommentLine(p, l) /\ DepthAfter(p, start_pos, l) = 0}

\* The least element of a non-empty set of numbers.
Min(S) == CHOOSE x \in S : \A y \in S : x <= y

\* C21 (fails on the code, see C23): when a line after the start line brings
\* depth to 0, the end line computed is the first such line, depth summing
\* function keywords less end keywords over the lines that are not comments.
C21_EndAtFirstZeroDepth ==
    BodyLocated =>
        (ClosingLines(parser, scan_start) # {}
             => scan_end = Min(ClosingLines(parser, scan_start)))

\* C22 (fails on the code, see C9): the span located for a function lies
\* within the file, start_pos <= end_pos <= index of the last line, and the
\* scanning loop never reads a line outside the file.
C22_SpanWithinFile ==
    /\ BodyLocated => (scan_start <= scan_end /\ scan_end <= Len(parser.lines) - 1)
    /\ scan_pc # "raised"

\* The scan of a located body has returned its errors.
ScanReturned ==
    /\ method = "check_forbidden_globals"
    /\ scan_pc = "returned"
    /\ scan_start # -1

\* C23 (fails on the code): the scan reports no access that stands in a comment
\* only; for every error returned, the line holds a match of the global at a
\* position that is not in a comment (after a -- outside strings, at any
\* indentation or after code, or inside an open --[[ block).
C23_CommentsNotReported ==
    ScanReturned =>
        \A k \in 1..Len(returned) :
            LET line_num == returned[k].line - 1
                line == parser.lines[line_num + 1]
            IN \E m \in Range(GlobalMatches(line, returned[k].global, 0)) :
                   ~CommentAt(parser, line_num, m)

RECURSIVE CallsOutside(_, _, _)
\* The names of the call expressions NAME( and NAME.NAME( of line line_num, from
\* position i on, that start neither in a comment nor in a string literal.
CallsOutside(p, line_num, i) ==
    LET line == p.lines[line_num + 1]
    IN IF i >= Len(line) THEN {}
       ELSE LET m == CallMatchAt(line, i)
            IN IF m.ok
               THEN (IF CommentAt(p, line_num, i) \/ StringOpenAt(line, i)
                     THEN {} ELSE {m.name})
                    \cup CallsOutside(p, line_num, m.end)
               ELSE CallsOutside(p, line_num, i + 1)

\* C24 (fails on the code): every name of the callee list is the name of a call
\* expression of the body that stands outside comments and string literals.
C24_CalleesFromCodeOnly ==
    (method = "find_function_calls" /\ scan_pc = "returned" /\ scan_start # -1) =>
        \A k \in 1..Len(returned) :
            \E l \in scan_start..Min({scan_end, Len(parser.lines) - 1}) :
                returned[k] \in CallsOutside(parser, l, 0)

\* The step is an iteration of the scanning loop on a line it does not skip as
\* a comment.
LineProcessed ==
    /\ scan_pc = "scan"
    /\ scan_pc' = "scan"
    /\ scan_line' = scan_line + 1
    /\ ~is_in_comment(parser, scan_line, 0)

\* The line the scanning loop is at.
ScannedLine == parser.lines[scan_line + 1]

\* The line is handled inside a nested closure: the flag is set before it or
\* the line holds script.on_event together with function(.
InNestedClosure == scan_in_handler \/ EntersEventHandler(ScannedLine)

\* The nested depth counter after a line handled inside a nested closure: set
\* to 0 first on a registering line, then the function keywords of the line
\* added and its end keywords subtracted.
NestedDepthAfter ==
    (IF EntersEventHandler(ScannedLine) THEN 0 ELSE scan_depth)
    + Count(ScannedLine, "function") - Count(ScannedLine, "end")

\* C25 (as the code has it): per body the scan has the states Normal and
\* InNestedClosure; a line is handled in InNestedClosure exactly when the flag
\* is set before it or the line registers a handler; the flag is clear after
\* such a line exactly when the nested depth counter is 0 or below and the
\* line is after the start line; errors are added only by lines handled in
\* Normal, which leave flag and counter alone.
C25_NestedClosureMachine ==
    [][LineProcessed =>
          /\ ~InNestedClosure =>
                (~scan_in_handler' /\ scan_depth' = scan_depth)
          /\ InNestedClosure =>
                /\ scan_depth' = NestedDepthAfter
                /\ scan_in_handler' = ~(scan_depth' <= 0 /\ scan_line > scan_start)
                /\ scan_errors' = scan_errors]_vars

\* A scan has left a nested closure with the counter below 0.
C25_Witness ==
    /\ method = "check_forbidden_globals"
    /\ scan_pc = "scan"
    /\ scan_line > scan_start
    /\ ~scan_in_handler
    /\ scan_depth < 0

\* C25 as stated: the flag is clear after a line handled in InNestedClosure
\* exactly when the nested depth counter is 0 after it.
C25_LeavesExactlyAtZero ==
    [][LineProcessed =>
          /\ ~InNestedClosure =>
                (~scan_in_handler' /\ scan_depth' = scan_depth)
          /\ InNestedClosure =>
                /\ scan_depth' = NestedDepthAfter
                /\ scan_in_handler' = (scan_depth' # 0)
                /\ scan_errors' = scan_errors]_vars

\* The first line from line_num on that holds the tokens, -1 when none does.
RECURSIVE FirstLineWith(_, _, _)
FirstLineWith(p, needle, line_num) ==
    IF line_num >= Len(p.lines) THEN -1
    ELSE IF Contains(p.lines[line_num + 1], needle, 0) THEN line_num
    ELSE FirstLineWith(p, needle, line_num + 1)

\* The lines of the anonymous handler: from the line of script.on_load( to the
\* first line from there on that holds end).
HandlerLines(p) ==
    LET first == FirstLineWith(p, <<"script", ".", "on_load", "(">>, 0)
        last == IF first = -1 THEN -1 ELSE FirstLineWith(p, <<"end", ")">>, first)
    IN IF last = -1 THEN {} ELSE first..last

\* C28 (fails on the code, see C22): no forbidden access is reported on a line
\* of the anonymous on_load handler of control.lua.
C28_HandlerBodyNotReported ==
    (pc = "returned" /\ HasRegistration) =>
        \A k \in 1..Len(result) :
            ~(/\ result[k].kind = "forbidden"
              /\ result[k].file = "control.lua"
              /\ result[k].line - 1 \in HandlerLines(Parser(ControlIndex)))

====
